---- MODULE Spec2Model ----
(***************************************************************************)
(* A model of the vibecut daemon and engine:                               *)
(*   - the job table and JobManager (crates/daemon/src/jobs/mod.rs),       *)
(*   - the scheduler and the typed processors (jobs/processor.rs, ...),    *)
(*   - import and the readiness ensure-loop (api/media.rs,                 *)
(*     orchestrator/ensure.rs, orchestrator/state.rs),                     *)
(*   - the magnetic timeline engine (crates/engine/src/ops.rs) and the     *)
(*     entry points that persist a timeline (api/timeline.rs).             *)
(* One specification per component; each leaves the variables of the       *)
(* other components unchanged.                                             *)
(***************************************************************************)
EXTENDS Integers, Sequences, FiniteSets, TLC

VARIABLES
    jobs,       \* the jobs table: a sequence of rows, row id = index (AUTOINCREMENT)
    inflight,   \* JobManager level: ids of the jobs a processor is currently running
    assets,     \* the media_assets table: a sequence of rows, row id = index
    conn,       \* state of Database.conn, the std::sync::Mutex around the connection
    imports,    \* spawned import tasks: job id -> [pc, project, path, is_reference]
    ensureLog,  \* the ensure_ready calls made so far (the last two), oldest first
    dirty,      \* an asset was added or a job changed status since the last ensure_ready call
    pollLog,    \* what the scheduler's last poll saw and returned
    cur,        \* the scheduler task: the job it is processing and where it is in it
    finished,   \* job id -> status the job had when process_job (and run's handling) was done with it
    stampLog,   \* job id -> whether the asset's stamp was set when the job was marked Completed
    statusLog,  \* job id -> the Completed and Failed updates written for it, and whether a Running one followed
    tl,         \* the timeline a batch of operations is working on
    tpc,        \* "idle", or "batch" while an entry point is applying its operations
    nops,       \* operations applied so far in the current batch
    persisted,  \* the timeline row of the project (NoTimeline when there is none)
    batches,    \* requests to the timeline entry points begun so far
    lastOp,     \* the last apply_operation call: kind, result, and whether M1-M3 held before
    media,      \* the files on disk: path -> duration in ticks that FFmpegWrapper::probe reports
    segments,   \* the segments table: a sequence of rows, row id = index (AUTOINCREMENT)
    build,      \* the locals of the running process_build_segments call
    lastBuild,  \* the last finished process_build_segments call: the asset's rows before and after
    goals,      \* the orchestrator goals table: a sequence of rows, row id = index
    proposals,  \* the orchestrator_proposals table
    applies,    \* the orchestrator_applies table
    messages,   \* the orchestrator_messages table
    embeds,     \* ids of the segments that have a text embedding of the model in use
    reqs,       \* the propose requests in flight: request id -> what the handler has read and done
    nreq,       \* orchestrator requests received so far
    lastResp,   \* how the last orchestrator request ended and what it wrote
    decision,   \* the last determine_mode call: its arguments and its result
    tl_index,   \* ids of the projects whose twelvelabs_index_id is set
    tl_videos,  \* asset id -> twelvelabs_video_id, for the assets with twelvelabs_indexed_at
    fusion,     \* ids of the segments that have a fusion embedding
    lastRetrieval, \* the last retrieve_candidates call: what ran and what it returned
    projects,   \* ids of the rows of the projects table
    foreign_keys, \* whether the SQLite library of the build enforces foreign keys by default
    lastDelete, \* the last Database::delete_project call: its argument and whether it returned Ok
    served,     \* the last serve_video_file call: the Range header, the file size and the response
    sse,        \* the event stream of one client: its project, the events not yet received, those delivered
    ready_jobs, \* JobProcessor::run: the ids get_ready_jobs returned that are still to be processed
    handlers,   \* the apply_operations requests in flight: request -> its batch and the timeline it loaded
    embedRun,   \* the running process_embed_segments call: its asset, its segments, the next one, and how it ended
    missing,    \* the last compute_missing_steps call: the asset's stamps, the goal and the steps returned
    indexPoll,  \* the polling loop of process_index_asset_with_twelvelabs: attempts, delays slept, outcome
    diversity   \* the last diversify_candidates call: the candidates given and those returned

jobVars      == <<jobs, inflight>>
daemonVars   == <<assets, conn, imports, ensureLog, dirty, pollLog>>
procVars     == <<cur, finished, stampLog, statusLog>>
timelineVars == <<tl, tpc, nops, persisted, batches, lastOp>>
segmentVars  == <<media, segments, build, lastBuild>>
orchVars     == <<goals, proposals, applies, messages, embeds, reqs, nreq, lastResp, decision>>
retrievalVars == <<tl_index, tl_videos, fusion, lastRetrieval>>
storeVars    == <<projects, foreign_keys, lastDelete, served, sse, ready_jobs, handlers>>
runVars      == <<embedRun, missing, indexPoll, diversity>>
extVars      == <<segmentVars, orchVars, retrievalVars, storeVars, runVars>>
vars         == <<jobs, inflight, assets, conn, imports, ensureLog, dirty, pollLog,
                  cur, finished, stampLog, statusLog, tl, tpc, nops, persisted, batches, lastOp,
                  media, segments, build, lastBuild,
                  goals, proposals, applies, messages, embeds, reqs, nreq, lastResp, decision,
                  tl_index, tl_videos, fusion, lastRetrieval,
                  projects, foreign_keys, lastDelete, served, sse, ready_jobs, handlers,
                  embedRun, missing, indexPoll, diversity>>

(***************************************************************************)
(* Bounds of the model.                                                    *)
(***************************************************************************)
MaxJobs == 3

(***************************************************************************)
(* Small helpers.                                                          *)
(***************************************************************************)
Min(S) == CHOOSE m \in S : \A n \in S : m <= n
Max(S) == CHOOSE m \in S : \A n \in S : m >= n
Range(s) == {s[i] : i \in DOMAIN s}

(***************************************************************************)
(* jobs/mod.rs: JobType, JobStatus and their string forms.                 *)
(***************************************************************************)
JobType ==
    {"ImportRaw", "GenerateProxy", "Transcribe", "AnalyzeVision", "GenerateEdit",
     "Export", "BuildSegments", "TranscribeAsset", "AnalyzeVisionAsset",
     "EnrichSegmentsFromTranscript", "EnrichSegmentsFromVision",
     "ComputeSegmentMetadata", "EmbedSegments", "IndexAssetWithTwelveLabs"}

JobStatus == {"Pending", "Running", "Completed", "Failed", "Cancelled"}

\* JobType::to_string / JobStatus::to_string: the plain variant name.
to_string(variant) == variant

\* serde_json::to_string of a unit variant: the variant name as a JSON string,
\* that is, wrapped in double quotes.
serde_json_to_string(variant) == "\"" \o variant \o "\""

\* serde_json::from_str::<JobType>: parses a JSON string; a bare word is an error.
serde_json_from_str(text) ==
    IF \E t \in JobType : text = serde_json_to_string(t)
    THEN [ok |-> TRUE, value |-> CHOOSE t \in JobType : text = serde_json_to_string(t)]
    ELSE [ok |-> FALSE, value |-> "error"]

(***************************************************************************)
(* jobs/mod.rs: the jobs table and JobManager.                             *)
(***************************************************************************)
NoKey == << >>          \* dedupe_key IS NULL / Option::None
NoAsset == 0            \* the payload field (asset_id, media_asset_id) is absent
NoProject == 0          \* the payload carries no project_id
NoProgress == -1        \* progress: None

\* A payload: the fields of the JSON object that the code reads back.
Payload(asset_id, media_asset_id, media_path, project_id) ==
    [asset_id |-> asset_id, media_asset_id |-> media_asset_id,
     media_path |-> media_path, project_id |-> project_id]

\* format!("{}:{}", job_type.to_string(), asset_id)
DedupeKey(job_type, asset) == <<to_string(job_type), asset>>

ActiveWithKey(js, key) ==
    {i \in DOMAIN js : js[i].dedupe_key = key /\ js[i].is_active = 1}

\* JobManager::create_job: the lookup and the INSERT happen under one lock.
create_job(js, job_type, payload, dedupe_key) ==
    IF dedupe_key # NoKey /\ ActiveWithKey(js, dedupe_key) # {}
    THEN [jobs |-> js, id |-> Min(ActiveWithKey(js, dedupe_key)), inserted |-> FALSE]
    ELSE [jobs |-> Append(js,
                     [type       |-> to_string(job_type),
                      status     |-> to_string("Pending"),
                      progress   |-> 0,
                      payload    |-> payload,
                      dedupe_key |-> dedupe_key,
                      is_active  |-> 1]),
          id |-> Len(js) + 1,
          inserted |-> TRUE]

\* The is_active value update_job_status writes for a status.
IsActiveForBroken(status) ==
    IF status \in {"Completed", "Failed"} THEN 0 ELSE 1

IsActiveFor(status) ==
    IF status \in {"Completed", "Failed", "Cancelled"} THEN 0 ELSE 1

\* JobManager::update_job_status: an UPDATE of the row with that id, whatever
\* the row's current status; no row, no change.
update_job_status(js, id, status, progress) ==
    IF id \notin DOMAIN js THEN js
    ELSE [js EXCEPT ![id] =
            [@ EXCEPT !.status = to_string(status),
                      !.is_active = IsActiveFor(status),
                      !.progress = IF progress = NoProgress THEN @ ELSE progress]]

\* JobManager::cancel_job
cancel_job(js, id) == update_job_status(js, id, "Cancelled", NoProgress)

(***************************************************************************)
(* SpecJobs: JobManager driven by its callers.  A caller creates jobs;     *)
(* a processor that was handed a Pending job marks it Running, writes      *)
(* progress updates and a final Completed or Failed; the HTTP surface      *)
(* cancels any job at any time.                                            *)
(***************************************************************************)
KeyAssets == {1}
KeyedTypes == {"BuildSegments"}
JobsFrame == UNCHANGED <<daemonVars, procVars, timelineVars, extVars>>

JM_Create(t, a, keyed) ==
    /\ Len(jobs) < MaxJobs
    /\ jobs' = create_job(jobs, t, Payload(a, NoAsset, FALSE, NoProject),
                          IF keyed THEN DedupeKey(t, a) ELSE NoKey).jobs
    /\ UNCHANGED inflight
    /\ JobsFrame

\* processor.rs:138, process_job marks the job it was handed Running at 0%.
JM_Start(j) ==
    /\ j \in DOMAIN jobs
    /\ j \notin inflight
    /\ jobs[j].status = "Pending"
    /\ jobs' = update_job_status(jobs, j, "Running", 0)
    /\ inflight' = inflight \cup {j}
    /\ JobsFrame

\* A processor's progress update, e.g. build_segments.rs:60.
JM_Progress(j) ==
    /\ j \in inflight
    /\ jobs' = update_job_status(jobs, j, "Running", 50)
    /\ UNCHANGED inflight
    /\ JobsFrame

\* A processor's final update on success, e.g. build_segments.rs:67.
JM_Complete(j) ==
    /\ j \in inflight
    /\ jobs' = update_job_status(jobs, j, "Completed", 100)
    /\ inflight' = inflight \ {j}
    /\ JobsFrame

\* process_job's update on a processor error, e.g. processor.rs:154.
JM_Fail(j) ==
    /\ j \in inflight
    /\ jobs' = update_job_status(jobs, j, "Failed", NoProgress)
    /\ inflight' = inflight \ {j}
    /\ JobsFrame

\* api/jobs.rs: POST /jobs/:id/cancel
JM_Cancel(j) ==
    /\ j \in DOMAIN jobs
    /\ jobs' = cancel_job(jobs, j)
    /\ UNCHANGED inflight
    /\ JobsFrame

EmptyTimeline == << >>
NoTimeline == [exists |-> FALSE, tracks |-> EmptyTimeline]
NoOp == [kind |-> "none", ok |-> TRUE, pre |-> TRUE]
Idle == [job |-> 0, i |-> 0, stamped |-> FALSE]
NoPoll == [polled |-> FALSE, eligible |-> {}, ready |-> << >>]
NoBuild == [job |-> 0, asset_id |-> 0, project_id |-> 0, duration_ticks |-> 0,
            current_time_ticks |-> 0, stamped |-> FALSE, before |-> {}]
NoLastBuild == [job |-> 0, asset_id |-> 0, stamped |-> FALSE, duration_ticks |-> 0,
                before |-> {}, after |-> {}]

JobsInit0 == jobs = << >> /\ inflight = {}
DaemonInit0 ==
    /\ assets = << >> /\ conn = "free" /\ imports = << >> /\ ensureLog = << >>
    /\ dirty = FALSE /\ pollLog = NoPoll
ProcInit0 == cur = Idle /\ finished = << >> /\ stampLog = << >> /\ statusLog = << >>
TimelineInit0 ==
    /\ tl = EmptyTimeline /\ tpc = "idle" /\ nops = 0
    /\ persisted = NoTimeline /\ batches = 0 /\ lastOp = NoOp

SegmentInit0 ==
    media = << >> /\ segments = << >> /\ build = NoBuild /\ lastBuild = NoLastBuild
NoToken == "<none>"
NoResp == [kind |-> "none", status |-> "none", mode |-> "none", wrote |-> FALSE,
           clips |-> FALSE, confirm |-> NoToken, applied |-> FALSE, advanced |-> FALSE]
NoDecision == [called |-> FALSE, media_assets_count |-> 0, segments_count |-> 0,
               segments_with_text_embeddings |-> 0, jobs_running_count |-> 0,
               is_destructive |-> FALSE, confirm_token |-> NoToken, user_intent |-> "",
               mode |-> "none"]
OrchInit0 ==
    /\ goals = << >> /\ proposals = << >> /\ applies = << >> /\ messages = << >>
    /\ embeds = {} /\ reqs = << >> /\ nreq = 0 /\ lastResp = NoResp /\ decision = NoDecision
NoRetrieval == [called |-> FALSE, project_id |-> 0, setting |-> "none",
                external_ran |-> FALSE, external_failed |-> FALSE, external_empty |-> FALSE,
                local_ran |-> FALSE, local_candidates |-> {}, ok |-> FALSE,
                candidates |-> {}, backend_used |-> "none", fallback_reason |-> "null"]
RetrievalInit0 ==
    tl_index = {} /\ tl_videos = << >> /\ fusion = {} /\ lastRetrieval = NoRetrieval
NoDelete == [called |-> FALSE, id |-> 0, ok |-> FALSE]
NoServed == [called |-> FALSE, n |-> 0, has_range |-> FALSE, range_str |-> << >>, file_size |-> 0,
             start |-> 0, end |-> 0, status |-> 0, content_length |-> 0]
NoStream == [open |-> FALSE, project_id |-> 0, pending |-> << >>, delivered |-> << >>, sent |-> 0]
StoreInit0 ==
    /\ projects = {} /\ foreign_keys = FALSE /\ lastDelete = NoDelete
    /\ served = NoServed /\ sse = NoStream /\ ready_jobs = << >> /\ handlers = << >>
NoEmbedRun == [pc |-> "none"]
NoMissing == [called |-> FALSE]
NoIndexPoll == [pc |-> "none"]
NoDiversity == [called |-> FALSE]
RunInit0 ==
    /\ embedRun = NoEmbedRun /\ missing = NoMissing
    /\ indexPoll = NoIndexPoll /\ diversity = NoDiversity
ExtInit0 == SegmentInit0 /\ OrchInit0 /\ RetrievalInit0 /\ StoreInit0 /\ RunInit0

InitJobs == JobsInit0 /\ DaemonInit0 /\ ProcInit0 /\ TimelineInit0 /\ ExtInit0

NextJobs ==
    \/ \E t \in KeyedTypes, a \in KeyAssets, keyed \in BOOLEAN : JM_Create(t, a, keyed)
    \/ \E j \in 1..MaxJobs : JM_Start(j)
    \/ \E j \in 1..MaxJobs : JM_Progress(j)
    \/ \E j \in 1..MaxJobs : JM_Complete(j)
    \/ \E j \in 1..MaxJobs : JM_Fail(j)
    \/ \E j \in 1..MaxJobs : JM_Cancel(j)

SpecJobs ==
    InitJobs /\ [][NextJobs]_vars

(***************************************************************************)
(* C1: no two active jobs carry the same non-null dedupe key, in every     *)
(* state reachable by create_job, update_job_status (progress updates of   *)
(* a processor that is still running the job included) and cancel_job.     *)
(***************************************************************************)
C1_OneActiveJobPerDedupeKey ==
    \A i, j \in DOMAIN jobs :
        ( /\ i # j
          /\ jobs[i].is_active = 1 /\ jobs[j].is_active = 1
          /\ jobs[i].dedupe_key # NoKey )
        => jobs[i].dedupe_key # jobs[j].dedupe_key

(***************************************************************************)
(* C3: for every job, is_active = 1 exactly when the status is Pending or  *)
(* Running (so update_job_status clears the flag exactly for Completed,    *)
(* Failed and Cancelled).                                                  *)
(***************************************************************************)
C3_ActiveIffPendingOrRunning ==
    \A j \in DOMAIN jobs :
        (jobs[j].is_active = 1) <=> (jobs[j].status \in {"Pending", "Running"})

\* A job was cancelled, another completed, a third is still running.
C3_Witness ==
    /\ \E j \in DOMAIN jobs : jobs[j].status = "Cancelled" /\ jobs[j].is_active = 0
    /\ \E j \in DOMAIN jobs : jobs[j].status = "Completed" /\ jobs[j].is_active = 0
    /\ \E j \in DOMAIN jobs : jobs[j].status = "Running" /\ jobs[j].is_active = 1

(***************************************************************************)
(* C24: a job that is Completed, Failed or Cancelled keeps that status and *)
(* is_active = 0 through every later update_job_status call, those of a    *)
(* processor that was running the job when it was cancelled included.      *)
(***************************************************************************)
C24_TerminalStatusAbsorbing ==
    [][\A j \in DOMAIN jobs :
          jobs[j].status \in {"Completed", "Failed", "Cancelled"}
          => (jobs'[j].status = jobs[j].status /\ jobs'[j].is_active = 0)]_vars

(***************************************************************************)
(* db/mod.rs: the media_assets table.  A row keeps its project, its path,  *)
(* the is_reference flag and the set of analysis stamps that are non-null. *)
(***************************************************************************)
Stamps ==
    {"segments_built_at", "transcript_ready_at", "vision_ready_at",
     "metadata_ready_at", "embeddings_ready_at"}

AssetWithPath(as, project, path) ==
    {i \in DOMAIN as : as[i].project = project /\ as[i].path = path}

\* Database::create_media_asset_with_reference_flag: an upsert on
\* (project_id, path); the existing row keeps its id and its stamps.
create_media_asset_with_reference_flag(as, project, path, is_reference) ==
    IF AssetWithPath(as, project, path) # {}
    THEN LET id == Min(AssetWithPath(as, project, path))
         IN [assets |-> [as EXCEPT ![id].is_reference = is_reference], id |-> id]
    ELSE [assets |-> Append(as, [project |-> project, path |-> path,
                                 is_reference |-> is_reference, stamps |-> {}]),
          id |-> Len(as) + 1]

\* Database::update_asset_analysis_state: an UPDATE by id; no row, no change.
update_asset_analysis_state(as, asset_id, field) ==
    IF asset_id \in DOMAIN as
    THEN [as EXCEPT ![asset_id].stamps = @ \cup {field}]
    ELSE as

\* The column check_asset_prerequisites reads for a required state.
StateColumn(state) ==
    CASE state = "segments_built"   -> "segments_built_at"
      [] state = "transcript_ready" -> "transcript_ready_at"
      [] state = "vision_ready"     -> "vision_ready_at"
      [] state = "metadata_ready"   -> "metadata_ready_at"
      [] state = "embeddings_ready" -> "embeddings_ready_at"

\* Database::check_asset_prerequisites: Err when the asset has no row
\* (query_row(..)?), else whether every required column is non-null.
check_asset_prerequisites(as, asset_id, required_states) ==
    IF asset_id \notin DOMAIN as
    THEN [ok |-> FALSE, value |-> FALSE]
    ELSE [ok |-> TRUE,
          value |-> \A s \in required_states : StateColumn(s) \in as[asset_id].stamps]

(***************************************************************************)
(* jobs/processor.rs: the gate of the scheduler.                           *)
(***************************************************************************)
\* extract_asset_id: asset_id, else media_asset_id, else None.
extract_asset_id(payload) ==
    IF payload.asset_id # NoAsset THEN payload.asset_id
    ELSE payload.media_asset_id

\* JobProcessor::check_job_prerequisites
check_job_prerequisites(as, job_type, asset_id) ==
    CASE job_type = "EnrichSegmentsFromTranscript" ->
            check_asset_prerequisites(as, asset_id, {"segments_built", "transcript_ready"})
      [] job_type = "EnrichSegmentsFromVision" ->
            check_asset_prerequisites(as, asset_id, {"segments_built", "vision_ready"})
      [] job_type = "ComputeSegmentMetadata" ->
            check_asset_prerequisites(as, asset_id, {"segments_built"})
      [] job_type = "EmbedSegments" ->
            check_asset_prerequisites(as, asset_id, {"metadata_ready"})
      [] OTHER -> [ok |-> TRUE, value |-> TRUE]

\* get_ready_jobs, lines 46-60: what is decided for one selected row once
\* its type is parsed.
RowReady(as, job_type, payload) ==
    IF extract_asset_id(payload) # NoAsset
    THEN check_job_prerequisites(as, job_type, extract_asset_id(payload))
    ELSE [ok |-> TRUE, value |-> job_type \in {"ImportRaw", "GenerateEdit", "Export"}]

(***************************************************************************)
(* The typed processors (jobs/build_segments.rs, transcribe.rs, vision.rs, *)
(* enrichment.rs, metadata.rs, embeddings.rs) as the sequence of their     *)
(* effects on the database:                                                *)
(*   work     - the analysis itself; may fail, and in the processors that  *)
(*              loop over segments writes Running progress updates,        *)
(*   stamp    - update_asset_analysis_state(asset_id, arg),                *)
(*   enqueue  - create_job(arg, {asset_id}, None),                         *)
(*   complete - update_job_status(job_id, Completed, Some(1.0)).           *)
(***************************************************************************)
Step(op, arg) == [op |-> op, arg |-> arg]

\* The same steps with the Completed mark of BuildSegments ahead of its stamp.
ProcStepsCompleteFirst(job_type) ==
    CASE job_type = "BuildSegments" ->
            <<Step("work", "loop"), Step("complete", ""), Step("stamp", "segments_built_at")>>
      [] job_type = "TranscribeAsset" ->
            <<Step("work", "call"), Step("stamp", "transcript_ready_at"),
              Step("enqueue", "EnrichSegmentsFromTranscript"), Step("complete", "")>>
      [] job_type = "AnalyzeVisionAsset" ->
            <<Step("work", "call"), Step("stamp", "vision_ready_at"),
              Step("enqueue", "EnrichSegmentsFromVision"), Step("complete", "")>>
      [] job_type \in {"EnrichSegmentsFromTranscript", "EnrichSegmentsFromVision"} ->
            <<Step("work", "loop"), Step("enqueue", "ComputeSegmentMetadata"),
              Step("complete", "")>>
      [] job_type = "ComputeSegmentMetadata" ->
            <<Step("work", "loop"), Step("stamp", "metadata_ready_at"),
              Step("enqueue", "EmbedSegments"), Step("complete", "")>>
      [] job_type = "EmbedSegments" ->
            <<Step("work", "loop"), Step("stamp", "embeddings_ready_at"),
              Step("complete", "")>>
      [] OTHER -> << >>

ProcSteps(job_type) ==
    CASE job_type = "BuildSegments" ->
            <<Step("work", "loop"), Step("stamp", "segments_built_at"), Step("complete", "")>>
      [] job_type = "TranscribeAsset" ->
            <<Step("work", "call"), Step("stamp", "transcript_ready_at"),
              Step("enqueue", "EnrichSegmentsFromTranscript"), Step("complete", "")>>
      [] job_type = "AnalyzeVisionAsset" ->
            <<Step("work", "call"), Step("stamp", "vision_ready_at"),
              Step("enqueue", "EnrichSegmentsFromVision"), Step("complete", "")>>
      [] job_type \in {"EnrichSegmentsFromTranscript", "EnrichSegmentsFromVision"} ->
            <<Step("work", "loop"), Step("enqueue", "ComputeSegmentMetadata"),
              Step("complete", "")>>
      [] job_type = "ComputeSegmentMetadata" ->
            <<Step("work", "loop"), Step("stamp", "metadata_ready_at"),
              Step("enqueue", "EmbedSegments"), Step("complete", "")>>
      [] job_type = "EmbedSegments" ->
            <<Step("work", "loop"), Step("stamp", "embeddings_ready_at"),
              Step("complete", "")>>
      [] OTHER -> << >>

\* The job types process_job has a branch for.
TypedJobs == {t \in JobType : ProcSteps(t) # << >>}

\* The job types whose processor writes a readiness stamp.
StampingJobs == {t \in JobType : \E k \in DOMAIN ProcSteps(t) : ProcSteps(t)[k].op = "stamp"}

\* What the scheduler task's update_job_status calls for a job add up to:
\* how many wrote Completed or Failed (each sends a JobCompleted or JobFailed
\* event, jobs/mod.rs:302-321), and whether a Running update came after one.
NoUpdates == [terminals |-> 0, late |-> FALSE]
AfterUpdate(entry, status) ==
    IF status \in {"Completed", "Failed"} THEN [entry EXCEPT !.terminals = @ + 1]
    ELSE IF status = "Running" /\ entry.terminals > 0 THEN [entry EXCEPT !.late = TRUE]
    ELSE entry
RECURSIVE AfterUpdates(_, _)
AfterUpdates(entry, statuses) ==
    IF statuses = << >> THEN entry
    ELSE AfterUpdates(AfterUpdate(entry, Head(statuses)), Tail(statuses))
WithUpdates(log, j, statuses) ==
    [k \in DOMAIN log \cup {j} |->
        AfterUpdates(IF k \in DOMAIN log THEN log[k] ELSE NoUpdates,
                     IF k = j THEN statuses ELSE << >>)]

\* The step the scheduler task is at.
CurStep == ProcSteps(jobs[cur.job].type)[cur.i]
AtStep(op) == cur.job # 0 /\ CurStep.op = op
CurAsset == extract_asset_id(jobs[cur.job].payload)

\* The task moves to the processor's next step; after the last one the
\* processor and process_job return Ok and the job is recorded with the
\* status it is left in (js: the jobs table after this step).
Advance(js, stamped) ==
    IF cur.i = Len(ProcSteps(jobs[cur.job].type))
    THEN /\ cur' = Idle
         /\ finished' = finished @@ (cur.job :> js[cur.job].status)
    ELSE /\ cur' = [cur EXCEPT !.i = @ + 1, !.stamped = stamped]
         /\ UNCHANGED finished

(***************************************************************************)
(* api/media.rs: what an import writes.                                    *)
(***************************************************************************)
\* process_single_video: registers the asset (upsert) and queues its four
\* jobs, none with a dedupe key, then writes the import job's progress.
process_single_video(js, as, job_id, project, path, is_reference) ==
    LET a  == create_media_asset_with_reference_flag(as, project, path, is_reference)
        j1 == create_job(js, "GenerateProxy", Payload(NoAsset, a.id, FALSE, NoProject), NoKey).jobs
        j2 == create_job(j1, "BuildSegments", Payload(a.id, NoAsset, FALSE, NoProject), NoKey).jobs
        j3 == create_job(j2, "TranscribeAsset", Payload(a.id, NoAsset, TRUE, NoProject), NoKey).jobs
        j4 == create_job(j3, "AnalyzeVisionAsset", Payload(a.id, NoAsset, TRUE, NoProject), NoKey).jobs
    IN [jobs |-> update_job_status(j4, job_id, "Running", 100), assets |-> a.assets]

\* The import of one file from the request to the end of its spawned task:
\* the handler's ImportRaw job, process_single_file_import, Completed.
ImportedOneFile(js, as, project, path) ==
    LET c == create_job(js, "ImportRaw", Payload(NoAsset, NoAsset, FALSE, project), NoKey)
        r == update_job_status(c.jobs, c.id, "Running", 0)
        v == process_single_video(r, as, c.id, project, path, FALSE)
    IN [jobs |-> update_job_status(v.jobs, c.id, "Completed", 100), assets |-> v.assets]

(***************************************************************************)
(* SpecDispatch: process_job and the typed processors, run by the one      *)
(* scheduler task on the Pending jobs that pass the gate of get_ready_jobs *)
(* (lines 46-60), after one video was imported.  Exports are requested     *)
(* over HTTP meanwhile.                                                    *)
(***************************************************************************)
MaxExports == 1
DispatchFrame ==
    UNCHANGED <<inflight, conn, imports, ensureLog, dirty, pollLog, timelineVars, extVars>>

InitDispatch ==
    /\ jobs = ImportedOneFile(<< >>, << >>, 1, "a.mp4").jobs
    /\ assets = ImportedOneFile(<< >>, << >>, 1, "a.mp4").assets
    /\ inflight = {} /\ conn = "free" /\ imports = << >> /\ ensureLog = << >>
    /\ dirty = FALSE /\ pollLog = NoPoll
    /\ ProcInit0 /\ TimelineInit0 /\ ExtInit0

\* api/export.rs: the handler queues an Export job; nothing executes it.
P_Export ==
    /\ Cardinality({j \in DOMAIN jobs : jobs[j].type = "Export"}) < MaxExports
    /\ jobs' = create_job(jobs, "Export", Payload(NoAsset, NoAsset, FALSE, NoProject), NoKey).jobs
    /\ UNCHANGED <<assets, procVars>>
    /\ DispatchFrame

\* process_job up to the call of the typed processor: the job is marked
\* Running; a job type without a branch is left like that and Ok returned;
\* a typed job without asset_id is marked Failed by process_job, one without
\* the media_path its processor needs makes process_job return Err, which
\* run answers by marking the job Failed.
ProcessJobStart(j) ==
    /\ LET running == update_job_status(jobs, j, "Running", 0)
           failed  == update_job_status(running, j, "Failed", NoProgress)
       IN IF jobs[j].type \notin TypedJobs
          THEN /\ jobs' = running
               /\ cur' = Idle
               /\ finished' = finished @@ (j :> running[j].status)
               /\ statusLog' = WithUpdates(statusLog, j, <<"Running">>)
          ELSE IF \/ extract_asset_id(jobs[j].payload) = NoAsset
                  \/ /\ jobs[j].type \in {"TranscribeAsset", "AnalyzeVisionAsset"}
                     /\ ~jobs[j].payload.media_path
          THEN /\ jobs' = failed
               /\ cur' = Idle
               /\ finished' = finished @@ (j :> failed[j].status)
               /\ statusLog' = WithUpdates(statusLog, j, <<"Running", "Failed">>)
          ELSE /\ jobs' = running
               /\ cur' = [job |-> j, i |-> 1, stamped |-> FALSE]
               /\ statusLog' = WithUpdates(statusLog, j, <<"Running">>)
               /\ UNCHANGED finished
    /\ UNCHANGED <<assets, stampLog>>

\* run hands process_job a Pending job that passes the gate.
P_Dispatch(j) ==
    /\ cur = Idle
    /\ j \in DOMAIN jobs
    /\ jobs[j].status = "Pending"
    /\ RowReady(assets, jobs[j].type, jobs[j].payload).ok
    /\ RowReady(assets, jobs[j].type, jobs[j].payload).value
    /\ ProcessJobStart(j)
    /\ DispatchFrame

\* The analysis succeeds; process_build_segments needs the asset's row
\* (build_segments.rs:21).
P_Work ==
    /\ AtStep("work")
    /\ jobs[cur.job].type = "BuildSegments" => CurAsset \in DOMAIN assets
    /\ Advance(jobs, cur.stamped)
    /\ UNCHANGED <<jobs, assets, stampLog, statusLog>>
    /\ DispatchFrame

\* A progress update inside the processor's loop over segments.
P_Progress ==
    /\ AtStep("work")
    /\ CurStep.arg = "loop"
    /\ jobs' = update_job_status(jobs, cur.job, "Running", 50)
    /\ statusLog' = WithUpdates(statusLog, cur.job, <<"Running">>)
    /\ UNCHANGED <<assets, cur, finished, stampLog>>
    /\ DispatchFrame

\* The analysis fails: the processor returns Err, process_job marks the job
\* Failed and returns Err, run marks it Failed again.
P_Error ==
    /\ AtStep("work")
    /\ LET failed == update_job_status(update_job_status(jobs, cur.job, "Failed", NoProgress),
                                       cur.job, "Failed", NoProgress)
       IN /\ jobs' = failed
          /\ finished' = finished @@ (cur.job :> failed[cur.job].status)
    /\ statusLog' = WithUpdates(statusLog, cur.job, <<"Failed", "Failed">>)
    /\ cur' = Idle
    /\ UNCHANGED <<assets, stampLog>>
    /\ DispatchFrame

P_Stamp ==
    /\ AtStep("stamp")
    /\ assets' = update_asset_analysis_state(assets, CurAsset, CurStep.arg)
    /\ Advance(jobs, TRUE)
    /\ UNCHANGED <<jobs, stampLog, statusLog>>
    /\ DispatchFrame

P_Enqueue ==
    /\ AtStep("enqueue")
    /\ jobs' = create_job(jobs, CurStep.arg, Payload(CurAsset, NoAsset, FALSE, NoProject), NoKey).jobs
    /\ Advance(jobs', cur.stamped)
    /\ UNCHANGED <<assets, stampLog, statusLog>>
    /\ DispatchFrame

\* The processor marks its job Completed; stampLog keeps whether a processor
\* that writes a stamp had written it by then.
P_Complete ==
    /\ AtStep("complete")
    /\ jobs' = update_job_status(jobs, cur.job, "Completed", 100)
    /\ stampLog' = IF jobs[cur.job].type \in StampingJobs
                   THEN stampLog @@ (cur.job :> cur.stamped)
                   ELSE stampLog
    /\ statusLog' = WithUpdates(statusLog, cur.job, <<"Completed">>)
    /\ Advance(jobs', cur.stamped)
    /\ UNCHANGED assets
    /\ DispatchFrame

NextDispatch ==
    \/ P_Export
    \/ \E j \in DOMAIN jobs : P_Dispatch(j)
    \/ P_Work
    \/ P_Progress
    \/ P_Error
    \/ P_Stamp
    \/ P_Enqueue
    \/ P_Complete

SpecDispatch ==
    InitDispatch /\ [][NextDispatch]_vars

(***************************************************************************)
(* C6: for BuildSegments, TranscribeAsset, AnalyzeVisionAsset,             *)
(* ComputeSegmentMetadata and EmbedSegments, every job the processor marks  *)
(* Completed had its asset's readiness stamp written by the processor at   *)
(* an earlier step of the same run.                                        *)
(***************************************************************************)
C6_StampBeforeCompleted ==
    \A j \in DOMAIN stampLog : stampLog[j]

\* All five stamping processors have completed a job.
C6_Witness ==
    \A t \in StampingJobs :
        \E j \in DOMAIN stampLog : jobs[j].type = t /\ jobs[j].status = "Completed"

(***************************************************************************)
(* C7: every job process_job was called on is, once process_job and the    *)
(* scheduler's handling of its result are over, Completed or Failed (no    *)
(* job is left Running by the scheduler).                                  *)
(***************************************************************************)
C7_DispatchedJobCompletedOrFailed ==
    \A j \in DOMAIN finished : finished[j] \in {"Completed", "Failed"}

(***************************************************************************)
(* C27: the status updates the scheduler task writes for a job are Running *)
(* updates followed by exactly one Completed or Failed update: at most one *)
(* JobCompleted or JobFailed event per job and no Running update after it, *)
(* and one such update once the task is done with the job, on the failure  *)
(* paths of the processors too.                                            *)
(***************************************************************************)
C27_OneTerminalUpdatePerJob ==
    /\ \A j \in DOMAIN statusLog : statusLog[j].terminals <= 1 /\ ~statusLog[j].late
    /\ \A j \in DOMAIN finished : statusLog[j].terminals = 1

(***************************************************************************)
(* jobs/processor.rs: the scheduler's poll.                                *)
(***************************************************************************)
\* The ids of the rows with that status text, oldest first.
RowsWithStatus(js, status_str) ==
    SelectSeq([i \in 1..Len(js) |-> i], LAMBDA i : js[i].status = status_str)

\* JobProcessor::get_ready_jobs: the status is bound as serde_json text and
\* the type column is parsed as serde_json text; a row that does not parse,
\* or whose asset has no row, makes the whole call an Err.
get_ready_jobs(js, as) ==
    LET status_str == serde_json_to_string("Pending")
        rows == RowsWithStatus(js, status_str)
        Parsed(i) == serde_json_from_str(js[i].type)
        Good(i) == /\ Parsed(i).ok
                   /\ RowReady(as, Parsed(i).value, js[i].payload).ok
    IN IF \E k \in DOMAIN rows : ~Good(rows[k])
       THEN [ok |-> FALSE, ready_jobs |-> << >>]
       ELSE [ok |-> TRUE,
             ready_jobs |-> SelectSeq(rows,
                 LAMBDA i : RowReady(as, Parsed(i).value, js[i].payload).value)]

\* The Pending jobs whose prerequisites are satisfied: what the poll is for.
Eligible(js, as) ==
    {j \in DOMAIN js :
        /\ js[j].status = to_string("Pending")
        /\ RowReady(as, js[j].type, js[j].payload).ok
        /\ RowReady(as, js[j].type, js[j].payload).value}

(***************************************************************************)
(* orchestrator/state.rs and ensure.rs.  Database.conn is a                *)
(* std::sync::Mutex: locking it again on the thread that holds it does not *)
(* return; it blocks for ever with the lock held, or panics, which poisons *)
(* the mutex.                                                              *)
(***************************************************************************)
ReadinessGoal == {"Segmented", "Enriched", "MetadataReady", "Embedded", "IndexedExternal"}

\* get_asset_states, lines 114-120: the non-reference assets of the project.
RawAssets(as, project) ==
    {i \in DOMAIN as : as[i].project = project /\ ~as[i].is_reference}

\* get_asset_states: takes the lock (line 111) and, holding it, calls
\* get_asset_readiness for each raw asset, which takes the lock (line 46).
\* It returns only when there is no raw asset to look at.
get_asset_states(as, project) ==
    IF RawAssets(as, project) = {}
    THEN [returns |-> TRUE, conn |-> {"free"}]
    ELSE [returns |-> FALSE, conn |-> {"deadlocked", "poisoned"}]

\* One call of ensure_ready as its caller sees it.
EnsureCall(project, goal, returned, enqueued, quiet) ==
    [project |-> project, goal |-> goal, returned |-> returned,
     enqueued |-> enqueued, quiet |-> quiet]

\* The last two calls.
Logged(log, call) ==
    IF log = << >> THEN <<call>> ELSE <<log[Len(log)], call>>

(***************************************************************************)
(* SpecDaemon: the daemon as it runs.  Files are imported over HTTP, as    *)
(* raw footage (api/media.rs) or as style references (api/style.rs), each  *)
(* by a spawned task; jobs are cancelled; the scheduler polls; the         *)
(* orchestrator calls ensure_ready.  Every database access needs           *)
(* Database.conn: once the mutex is deadlocked or poisoned the other       *)
(* tasks block or panic at their next access.                              *)
(***************************************************************************)
MaxImports == 2
MaxCancels == 1
Projects == {1}
Paths == {"a.mp4", "b.mp4"}
Goals == {"Segmented", "Embedded"}
DaemonFrame == UNCHANGED <<inflight, procVars, timelineVars, extVars>>

InitDaemon == JobsInit0 /\ DaemonInit0 /\ ProcInit0 /\ TimelineInit0 /\ ExtInit0

\* POST import with one file path: the handler creates the ImportRaw job,
\* without a dedupe key, and spawns the task that imports the file.
D_Import(project, path, is_reference) ==
    /\ conn = "free"
    /\ Cardinality(DOMAIN imports) < MaxImports
    /\ LET c == create_job(jobs, "ImportRaw", Payload(NoAsset, NoAsset, FALSE, project), NoKey)
       IN /\ jobs' = c.jobs
          /\ imports' = imports @@ (c.id :> [pc |-> "spawned", project |-> project,
                                             path |-> path, is_reference |-> is_reference])
    /\ dirty' = TRUE
    /\ UNCHANGED <<assets, conn, ensureLog, pollLog>>
    /\ DaemonFrame

\* process_single_file_import, first line: the job is marked Running.
D_ImportStart(j) ==
    /\ conn = "free"
    /\ j \in DOMAIN imports
    /\ imports[j].pc = "spawned"
    /\ jobs' = update_job_status(jobs, j, "Running", 0)
    /\ imports' = [imports EXCEPT ![j].pc = "running"]
    /\ dirty' = TRUE
    /\ UNCHANGED <<assets, conn, ensureLog, pollLog>>
    /\ DaemonFrame

\* The file is missing or cannot be probed: the task marks the job Failed.
D_ImportFail(j) ==
    /\ conn = "free"
    /\ j \in DOMAIN imports
    /\ imports[j].pc = "running"
    /\ jobs' = update_job_status(jobs, j, "Failed", 0)
    /\ imports' = [imports EXCEPT ![j].pc = "done"]
    /\ dirty' = TRUE
    /\ UNCHANGED <<assets, conn, ensureLog, pollLog>>
    /\ DaemonFrame

\* process_single_video, then the job is marked Completed.
D_ImportVideo(j) ==
    /\ conn = "free"
    /\ j \in DOMAIN imports
    /\ imports[j].pc = "running"
    /\ LET v == process_single_video(jobs, assets, j, imports[j].project,
                                     imports[j].path, imports[j].is_reference)
       IN /\ jobs' = update_job_status(v.jobs, j, "Completed", 100)
          /\ assets' = v.assets
    /\ imports' = [imports EXCEPT ![j].pc = "done"]
    /\ dirty' = TRUE
    /\ UNCHANGED <<conn, ensureLog, pollLog>>
    /\ DaemonFrame

\* api/jobs.rs: POST /jobs/:id/cancel
D_Cancel(j) ==
    /\ conn = "free"
    /\ j \in DOMAIN jobs
    /\ Cardinality({k \in DOMAIN jobs : jobs[k].status = "Cancelled"}) < MaxCancels
    /\ jobs' = cancel_job(jobs, j)
    /\ dirty' = TRUE
    /\ UNCHANGED <<assets, conn, imports, ensureLog, pollLog>>
    /\ DaemonFrame

\* One round of JobProcessor::run: get_ready_jobs, then process_job for
\* each id returned (none is: see PollReturnsNothing), then the sleep.
D_Poll ==
    /\ conn = "free"
    /\ pollLog' = [polled |-> TRUE,
                   eligible |-> Eligible(jobs, assets),
                   ready |-> get_ready_jobs(jobs, assets).ready_jobs]
    /\ UNCHANGED <<jobs, assets, conn, imports, ensureLog, dirty>>
    /\ DaemonFrame

\* ensure_ready(db, job_manager, project, goal), as its caller sees it: with
\* no raw asset in the project it returns an empty result; with one, it
\* never returns and leaves the mutex deadlocked or poisoned; called when
\* the mutex is already in that state it blocks or panics at its first lock.
D_EnsureReady(project, goal) ==
    /\ LET quiet == /\ ensureLog # << >>
                    /\ ~dirty
                    /\ ensureLog[Len(ensureLog)].project = project
                    /\ ensureLog[Len(ensureLog)].goal = goal
           g == get_asset_states(assets, project)
       IN IF conn = "free"
          THEN /\ conn' \in g.conn
               /\ ensureLog' = Logged(ensureLog, EnsureCall(project, goal, g.returns, {}, quiet))
          ELSE /\ conn' = conn
               /\ ensureLog' = Logged(ensureLog, EnsureCall(project, goal, FALSE, {}, quiet))
    /\ dirty' = FALSE
    /\ UNCHANGED <<jobs, assets, imports, pollLog>>
    /\ DaemonFrame

NextDaemon ==
    \/ \E p \in Projects, f \in Paths, r \in BOOLEAN : D_Import(p, f, r)
    \/ \E j \in DOMAIN jobs : D_ImportStart(j)
    \/ \E j \in DOMAIN jobs : D_ImportFail(j)
    \/ \E j \in DOMAIN jobs : D_ImportVideo(j)
    \/ \E j \in DOMAIN jobs : D_Cancel(j)
    \/ D_Poll
    \/ \E p \in Projects, g \in Goals : D_EnsureReady(p, g)

SpecDaemon ==
    InitDaemon /\ [][NextDaemon]_vars

\* The poll of the running daemon never returns a job.
PollReturnsNothing == pollLog.ready = << >>

(***************************************************************************)
(* C4: an ensure_ready call that follows another for the same project and  *)
(* goal, with no asset added and no job changed in between, returns, and   *)
(* returns an empty enqueued set.                                          *)
(***************************************************************************)
C4_SecondEnsureEnqueuesNothing ==
    \A k \in DOMAIN ensureLog :
        ensureLog[k].quiet => (ensureLog[k].returned /\ ensureLog[k].enqueued = {})

(***************************************************************************)
(* C5: every ensure_ready call returns, also in a project that has raw     *)
(* assets, and leaves the connection mutex free.                           *)
(***************************************************************************)
C5_EnsureReadyReturns ==
    /\ \A k \in DOMAIN ensureLog : ensureLog[k].returned
    /\ conn = "free"

(***************************************************************************)
(* C8: every Pending job whose prerequisites are satisfied when the        *)
(* scheduler polls is in the list of ready jobs that the poll returns.     *)
(***************************************************************************)
C8_PollFindsEligibleJobs ==
    pollLog.polled => \A j \in pollLog.eligible : j \in Range(pollLog.ready)

(***************************************************************************)
(* C10: at most one active job per asset and pipeline job type, whoever    *)
(* created the jobs.                                                       *)
(***************************************************************************)
C10_OneActiveJobPerAssetAndType ==
    \A i, j \in DOMAIN jobs :
        ( /\ i # j
          /\ jobs[i].is_active = 1 /\ jobs[j].is_active = 1
          /\ jobs[i].type = jobs[j].type
          /\ extract_asset_id(jobs[i].payload) # NoAsset )
        => extract_asset_id(jobs[i].payload) # extract_asset_id(jobs[j].payload)

(***************************************************************************)
(* crates/engine: the timeline.  A timeline is its sequence of tracks      *)
(* (Vec<Track>), a track its id and its sequence of clips (Vec<Clip-       *)
(* Instance>), a clip its id, in_ticks, out_ticks, timeline_start_ticks    *)
(* and track_id.  asset_id, speed, captions, music and markers do not      *)
(* influence where clips are and are left out.                             *)
(***************************************************************************)
Clip(id, asset_id, in_ticks, out_ticks, timeline_start_ticks, track_id) ==
    [id |-> id, asset_id |-> asset_id, in_ticks |-> in_ticks, out_ticks |-> out_ticks,
     timeline_start_ticks |-> timeline_start_ticks, track_id |-> track_id]

Track(id, clips) == [id |-> id, clips |-> clips]

Duration(clip) == clip.out_ticks - clip.in_ticks
ClipEnd(clip) == clip.timeline_start_ticks + Duration(clip)

\* iter().position(|x| P(x)) as a 1-based index, 0 for None.
Position(seq, P(_)) ==
    IF \E k \in DOMAIN seq : P(seq[k])
    THEN Min({k \in DOMAIN seq : P(seq[k])})
    ELSE 0

\* Vec::insert(index, e) and Vec::remove(index), for 1-based indexes.
InsertAt(seq, k, e) == SubSeq(seq, 1, k - 1) \o <<e>> \o SubSeq(seq, k, Len(seq))
RemoveAt(seq, k) == SubSeq(seq, 1, k - 1) \o SubSeq(seq, k + 1, Len(seq))

\* The index at which the operations insert "in sorted order": before the
\* first clip that starts after the position, else at the end.
SortedIndex(clips, position_ticks) ==
    IF Position(clips, LAMBDA c : c.timeline_start_ticks > position_ticks) = 0
    THEN Len(clips) + 1
    ELSE Position(clips, LAMBDA c : c.timeline_start_ticks > position_ticks)

\* tracks.iter().find(|t| t.id == id) as an index, 0 for None.
TrackIndex(t, id) == Position(t, LAMBDA tr : tr.id = id)

\* The first track that holds the clip, 0 for none.
TrackOfClip(t, clip_id) ==
    Position(t, LAMBDA tr : Position(tr.clips, LAMBDA c : c.id = clip_id) # 0)

ClipIndex(clips, clip_id) == Position(clips, LAMBDA c : c.id = clip_id)

\* The timeline with the track of that id, created at the end if missing.
WithTrack(t, id) ==
    IF TrackIndex(t, id) # 0 THEN t ELSE Append(t, Track(id, << >>))

\* clips.sort_by_key(|c| c.timeline_start_ticks): a stable sort.
RECURSIVE sort_by_key(_)
sort_by_key(clips) ==
    IF clips = << >> THEN << >>
    ELSE LET sorted == sort_by_key(SubSeq(clips, 1, Len(clips) - 1))
             last == clips[Len(clips)]
         IN InsertAt(sorted, SortedIndex(sorted, last.timeline_start_ticks), last)

\* The loop of repack_primary_timeline over sorted clips.
RECURSIVE Pack(_, _)
Pack(clips, current_time) ==
    IF clips = << >> THEN << >>
    ELSE <<[clips[1] EXCEPT !.timeline_start_ticks = current_time]>>
         \o Pack(Tail(clips), current_time + Duration(clips[1]))

\* Timeline::repack_primary_timeline left out: the timeline as it is.
repack_nothing(t) == t

\* Timeline::repack_primary_timeline
repack_primary_timeline(t) ==
    IF TrackIndex(t, 1) = 0 THEN t
    ELSE [t EXCEPT ![TrackIndex(t, 1)].clips = Pack(sort_by_key(@), 0)]

\* Timeline::find_available_overlay_lane without the overlap test: the first
\* track above the base.
first_lane_above(t, base_track_id, position_ticks, duration_ticks) ==
    LET Above(tr) == tr.id > base_track_id
    IN IF Position(t, Above) # 0 THEN t[Position(t, Above)].id
       ELSE base_track_id + 1

\* Timeline::find_available_overlay_lane
find_available_overlay_lane(t, base_track_id, position_ticks, duration_ticks) ==
    LET insert_end_ticks == position_ticks + duration_ticks
        Free(tr) == /\ tr.id > base_track_id
                    /\ ~\E k \in DOMAIN tr.clips :
                           /\ position_ticks < ClipEnd(tr.clips[k])
                           /\ insert_end_ticks > tr.clips[k].timeline_start_ticks
        above == {t[k].id : k \in {n \in DOMAIN t : t[n].id > base_track_id}}
    IN IF Position(t, Free) # 0 THEN t[Position(t, Free)].id
       ELSE IF above = {} THEN base_track_id + 1
       ELSE Max(above) + 1

\* Timeline::consolidate_timeline: the primary track is created if missing,
\* empty tracks other than the primary are dropped, the primary is repacked.
consolidate_timeline(t) ==
    repack_primary_timeline(
        SelectSeq(WithTrack(t, 1), LAMBDA tr : tr.id = 1 \/ tr.clips # << >>))

(***************************************************************************)
(* crates/engine/src/ops.rs: Timeline::apply_operation, one operator per   *)
(* operation kind.  Each gives the result (Ok or Err) and the timeline as  *)
(* the call leaves it.  uuid is the id Uuid::new_v4 gives a new clip.      *)
(***************************************************************************)
Ok(t) == [ok |-> TRUE, tl |-> t]
Err(t) == [ok |-> FALSE, tl |-> t]

\* for clip in &mut clips { if P(clip) { clip.timeline_start_ticks += delta } }
ShiftClips(clips, P(_), delta) ==
    IF clips = << >> THEN << >>
    ELSE [k \in 1..Len(clips) |->
            IF P(clips[k])
            THEN [clips[k] EXCEPT !.timeline_start_ticks = @ + delta]
            ELSE clips[k]]

\* max of the clip ends, 0 for an empty track.
TimelineEnd(clips) ==
    IF clips = << >> THEN 0 ELSE Max({ClipEnd(clips[k]) : k \in DOMAIN clips})

\* new_position_ticks.max(0).min(timeline_end)
Clamp(position_ticks, timeline_end) ==
    IF position_ticks < 0
    THEN (IF 0 < timeline_end THEN 0 ELSE timeline_end)
    ELSE (IF position_ticks < timeline_end THEN position_ticks ELSE timeline_end)

SplitClip(t, clip_id, position_ticks, uuid) ==
    IF TrackOfClip(t, clip_id) = 0 THEN Err(t)
    ELSE LET k == TrackOfClip(t, clip_id)
             ci == ClipIndex(t[k].clips, clip_id)
             clip == t[k].clips[ci]
             split_in == clip.in_ticks + (position_ticks - clip.timeline_start_ticks)
             new_clip == Clip(uuid, clip.asset_id, split_in, clip.out_ticks, position_ticks,
                              clip.track_id)
         IN IF /\ position_ticks > clip.timeline_start_ticks
               /\ position_ticks < ClipEnd(clip)
            THEN Ok([t EXCEPT ![k].clips =
                        InsertAt([@ EXCEPT ![ci].out_ticks = split_in], ci + 1, new_clip)])
            ELSE Err(t)

TrimClip(t, clip_id, new_in_ticks, new_out_ticks) ==
    IF TrackOfClip(t, clip_id) = 0 THEN Err(t)
    ELSE LET k == TrackOfClip(t, clip_id)
             ci == ClipIndex(t[k].clips, clip_id)
             in_delta == new_in_ticks - t[k].clips[ci].in_ticks
         IN Ok([t EXCEPT ![k].clips[ci] =
                    [@ EXCEPT !.in_ticks = new_in_ticks,
                              !.out_ticks = new_out_ticks,
                              !.timeline_start_ticks = @ + in_delta]])

DeleteClip(t, clip_id) ==
    IF TrackOfClip(t, clip_id) = 0 THEN Err(t)
    ELSE LET k == TrackOfClip(t, clip_id)
             ci == ClipIndex(t[k].clips, clip_id)
             clip == t[k].clips[ci]
             removed == [t EXCEPT ![k].clips = RemoveAt(@, ci)]
         IN IF t[k].id = 1
            THEN Ok(repack_primary_timeline(
                     [removed EXCEPT ![TrackIndex(removed, 1)].clips =
                         ShiftClips(@, LAMBDA c : c.timeline_start_ticks > clip.timeline_start_ticks,
                                    0 - Duration(clip))]))
            ELSE Ok(removed)

InsertClip(t, asset_id, position_ticks, track_id, duration_ticks, uuid) ==
    LET actual_track_id == IF track_id = 1 \/ track_id <= 0 THEN 1 ELSE track_id
        with == WithTrack(t, actual_track_id)
        pushed == [with EXCEPT ![TrackIndex(with, actual_track_id)].clips =
                      Append(@, Clip(uuid, asset_id, 0, duration_ticks, position_ticks,
                                     actual_track_id))]
    IN IF actual_track_id = 1 THEN Ok(repack_primary_timeline(pushed)) ELSE Ok(pushed)

\* The magnetic re-insertion MoveClip, ReorderClip and ConvertOverlayToPrimary
\* share: clamp, shift the clips at or after the position right, insert in
\* sorted order.  clips: the primary track's clips without the moved clip.
MagneticInsert(clips, clip, position_ticks) ==
    LET clamped_position == Clamp(position_ticks, TimelineEnd(clips))
        shifted == ShiftClips(clips, LAMBDA c : c.timeline_start_ticks >= clamped_position,
                              Duration(clip))
    IN InsertAt(shifted, SortedIndex(shifted, clamped_position),
                [clip EXCEPT !.timeline_start_ticks = clamped_position])

MoveClip(t, clip_id, new_position_ticks) ==
    IF TrackOfClip(t, clip_id) = 0 THEN Err(t)
    ELSE LET k == TrackOfClip(t, clip_id)
             ci == ClipIndex(t[k].clips, clip_id)
             clip == t[k].clips[ci]
             rest == RemoveAt(t[k].clips, ci)
             collapsed == ShiftClips(rest,
                              LAMBDA c : c.timeline_start_ticks > clip.timeline_start_ticks,
                              0 - Duration(clip))
         IN IF t[k].id = 1
            THEN Ok(repack_primary_timeline(
                     [t EXCEPT ![k].clips = MagneticInsert(collapsed, clip, new_position_ticks)]))
            ELSE Ok([t EXCEPT ![k].clips =
                        InsertAt(rest, SortedIndex(rest, new_position_ticks),
                                 [clip EXCEPT !.timeline_start_ticks = new_position_ticks])])

\* ReorderClip with the clip looked up on every track, as MoveClip does.
ReorderOnAnyTrack(t, clip_id, new_position_ticks) ==
    MoveClip(t, clip_id, new_position_ticks)

ReorderClip(t, clip_id, new_position_ticks) ==
    IF TrackIndex(t, 1) = 0 \/ ClipIndex(t[TrackIndex(t, 1)].clips, clip_id) = 0
    THEN Err(t)
    ELSE LET k == TrackIndex(t, 1)
             ci == ClipIndex(t[k].clips, clip_id)
             clip == t[k].clips[ci]
             collapsed == ShiftClips(RemoveAt(t[k].clips, ci),
                              LAMBDA c : c.timeline_start_ticks > clip.timeline_start_ticks,
                              0 - Duration(clip))
         IN Ok(repack_primary_timeline(
                 [t EXCEPT ![k].clips = MagneticInsert(collapsed, clip, new_position_ticks)]))

MoveClipToTrack(t, clip_id, new_track_id) ==
    IF TrackOfClip(t, clip_id) = 0 THEN Err(t)
    ELSE LET k == TrackOfClip(t, clip_id)
             ci == ClipIndex(t[k].clips, clip_id)
             clip == t[k].clips[ci]
             with == WithTrack([t EXCEPT ![k].clips = RemoveAt(@, ci)], new_track_id)
         IN Ok([with EXCEPT ![TrackIndex(with, new_track_id)].clips =
                   Append(@, [clip EXCEPT !.track_id = new_track_id])])

\* The track RippleInsertClip and OverwriteClip work on: track 1, else the
\* first track, else a primary track they create.
PrimaryOrFirst(t) ==
    IF TrackIndex(t, 1) # 0 THEN [tl |-> t, k |-> TrackIndex(t, 1)]
    ELSE IF t # << >> THEN [tl |-> t, k |-> 1]
    ELSE [tl |-> <<Track(1, << >>)>>, k |-> 1]

RippleInsertClip(t, asset_id, position_ticks, duration_ticks, uuid) ==
    LET p == PrimaryOrFirst(t)
        shifted == ShiftClips(p.tl[p.k].clips,
                       LAMBDA c : c.timeline_start_ticks >= position_ticks, duration_ticks)
        new_clip == Clip(uuid, asset_id, 0, duration_ticks, position_ticks, p.tl[p.k].id)
    IN Ok(repack_primary_timeline(
            [p.tl EXCEPT ![p.k].clips =
                InsertAt(shifted, SortedIndex(shifted, position_ticks), new_clip)]))

\* The closure of OverwriteClip's retain_mut for one clip: whether the clip
\* is kept, and the clip as the closure leaves it.
\* The closure of retain_mut without the overlap handling: every clip is kept
\* as it is.
OverwriteKeep(clip, position_ticks, insert_end_ticks) ==
    [keep |-> TRUE, clip |-> clip]

\* The closure of retain_mut in OverwriteClip, for one clip.
OverwriteOne(clip, position_ticks, insert_end_ticks) ==
    LET start == clip.timeline_start_ticks
        cut == [clip EXCEPT !.out_ticks = clip.in_ticks + (position_ticks - start)]
        late == [clip EXCEPT !.timeline_start_ticks = insert_end_ticks,
                             !.in_ticks = @ + (insert_end_ticks - start)]
    IN IF ~(position_ticks < ClipEnd(clip) /\ insert_end_ticks > start)
       THEN [keep |-> TRUE, clip |-> clip]
       ELSE IF position_ticks <= start /\ insert_end_ticks >= ClipEnd(clip)
       THEN [keep |-> FALSE, clip |-> clip]
       ELSE IF position_ticks > start /\ insert_end_ticks < ClipEnd(clip)
       THEN [keep |-> TRUE, clip |-> cut]
       ELSE IF position_ticks <= start
       THEN [keep |-> late.out_ticks > late.in_ticks, clip |-> late]
       ELSE [keep |-> cut.out_ticks > cut.in_ticks, clip |-> cut]

RECURSIVE OverwriteRetain(_, _, _)
OverwriteRetain(clips, position_ticks, insert_end_ticks) ==
    IF clips = << >> THEN << >>
    ELSE LET r == OverwriteOne(clips[1], position_ticks, insert_end_ticks)
         IN (IF r.keep THEN <<r.clip>> ELSE << >>)
            \o OverwriteRetain(Tail(clips), position_ticks, insert_end_ticks)

OverwriteClip(t, asset_id, position_ticks, duration_ticks, uuid) ==
    LET p == PrimaryOrFirst(t)
        kept == OverwriteRetain(p.tl[p.k].clips, position_ticks,
                                position_ticks + duration_ticks)
        new_clip == Clip(uuid, asset_id, 0, duration_ticks, position_ticks, p.tl[p.k].id)
    IN Ok([p.tl EXCEPT ![p.k].clips =
              InsertAt(kept, SortedIndex(kept, position_ticks), new_clip)])

\* Put a clip on the overlay lane find_available_overlay_lane picks above
\* the base track, in sorted order.
OnOverlayLane(t, clip, base_track_id, position_ticks) ==
    LET lane == find_available_overlay_lane(t, base_track_id, position_ticks, Duration(clip))
        with == WithTrack(t, lane)
        k == TrackIndex(with, lane)
    IN [with EXCEPT ![k].clips =
           InsertAt(@, SortedIndex(@, position_ticks),
                    [clip EXCEPT !.timeline_start_ticks = position_ticks,
                                 !.track_id = lane])]

InsertLayeredClip(t, asset_id, position_ticks, duration_ticks, base_track_id, uuid) ==
    Ok(OnOverlayLane(t, Clip(uuid, asset_id, 0, duration_ticks, position_ticks, base_track_id),
                     base_track_id, position_ticks))

ConvertPrimaryToOverlay(t, clip_id, position_ticks) ==
    IF TrackIndex(t, 1) = 0 \/ ClipIndex(t[TrackIndex(t, 1)].clips, clip_id) = 0
    THEN Err(t)
    ELSE LET k == TrackIndex(t, 1)
             ci == ClipIndex(t[k].clips, clip_id)
             clip == t[k].clips[ci]
             collapsed == repack_primary_timeline(
                 [t EXCEPT ![k].clips =
                     ShiftClips(RemoveAt(@, ci),
                         LAMBDA c : c.timeline_start_ticks > clip.timeline_start_ticks,
                         0 - Duration(clip))])
         IN Ok(OnOverlayLane(collapsed, clip, 1, position_ticks))

\* The first overlay track (id > 1) that holds the clip, 0 for none.
OverlayOfClip(t, clip_id) ==
    Position(t, LAMBDA tr : tr.id > 1 /\ ClipIndex(tr.clips, clip_id) # 0)

ConvertOverlayToPrimary(t, clip_id, position_ticks) ==
    IF OverlayOfClip(t, clip_id) = 0 THEN Err(t)
    ELSE LET k == OverlayOfClip(t, clip_id)
             source_track_id == t[k].id
             clip == t[k].clips[ClipIndex(t[k].clips, clip_id)]
             with == WithTrack([t EXCEPT ![k].clips = RemoveAt(@, ClipIndex(@, clip_id))], 1)
             placed == repack_primary_timeline(
                 [with EXCEPT ![TrackIndex(with, 1)].clips =
                     MagneticInsert(@, [clip EXCEPT !.track_id = 1], position_ticks)])
         IN IF placed[TrackIndex(placed, source_track_id)].clips = << >>
            THEN Ok(SelectSeq(placed, LAMBDA tr : tr.id # source_track_id))
            ELSE Ok(placed)

ConsolidateTimeline(t) == Ok(consolidate_timeline(t))

ClearTimeline(t) ==
    Ok(IF t = << >> THEN << >> ELSE [k \in 1..Len(t) |-> [t[k] EXCEPT !.clips = << >>]])

(***************************************************************************)
(* The magnetic-primary invariants M1-M3 of a timeline's track 1.          *)
(***************************************************************************)
PrimaryClips(t) == IF TrackIndex(t, 1) = 0 THEN << >> ELSE t[TrackIndex(t, 1)].clips

M1(clips) ==
    \A k \in 1..(Len(clips) - 1) :
        clips[k].timeline_start_ticks <= clips[k + 1].timeline_start_ticks
M2(clips) == clips # << >> => clips[1].timeline_start_ticks = 0
M3(clips) ==
    \A k \in 1..(Len(clips) - 1) :
        clips[k + 1].timeline_start_ticks = clips[k].timeline_start_ticks + Duration(clips[k])

Magnetic(t) == M1(PrimaryClips(t)) /\ M2(PrimaryClips(t)) /\ M3(PrimaryClips(t))

(***************************************************************************)
(* SpecTimeline: the entry points that persist a timeline                  *)
(* (api/timeline.rs).  apply_operations and apply_ops_to_timeline load the *)
(* stored timeline (a fresh one if there is none), apply the operations of *)
(* the request one by one, return at the first Err without storing         *)
(* anything, else consolidate and store.  The two differ in the store      *)
(* they call.  The model applies a batch one operation per step.           *)
(***************************************************************************)
MaxClips == 2
MaxTick == 2
MaxBatch == 2
MaxBatches == 2
MaxTrackId == 3
Ticks == 0..MaxTick
Durations == 1..MaxTick
ClipIds == 1..MaxClips
AssetIds == {1}
\* The source ranges TrimClip is asked for: new_in_ticks < new_out_ticks.
TrimRanges == {r \in Ticks \X Ticks : r[1] < r[2]}
TrackIds == {1, 2}
EntryPoints == {"apply_operations", "apply_ops_to_timeline"}
TimelineFrame == UNCHANGED <<jobVars, daemonVars, procVars, extVars>>

InitTimeline == JobsInit0 /\ DaemonInit0 /\ ProcInit0 /\ TimelineInit0 /\ ExtInit0

AllClipIds(t) == UNION {{tr.clips[k].id : k \in DOMAIN tr.clips} : tr \in Range(t)}
CanAddClip == Cardinality(AllClipIds(tl)) < MaxClips
\* The id of the next new clip (ids of clips that are gone are reused).
Uuid == Min(ClipIds \ AllClipIds(tl))

\* db.store_timeline
store_timeline(timeline) == [exists |-> TRUE, tracks |-> timeline]
\* db.store_timeline_version
store_timeline_version(timeline) == [exists |-> TRUE, tracks |-> timeline]

\* get_timeline and the deserialization, or Timeline::new.
T_Begin ==
    /\ tpc = "idle"
    /\ batches < MaxBatches
    /\ batches' = batches + 1
    /\ tpc' = "batch"
    /\ tl' = IF persisted.exists THEN persisted.tracks ELSE EmptyTimeline
    /\ nops' = 0
    /\ lastOp' = NoOp
    /\ UNCHANGED persisted
    /\ TimelineFrame

InBatch == tpc # "idle" /\ nops < MaxBatch

\* One round of the loop over the request's operations: Ok goes on with the
\* timeline as changed, Err ends the request with nothing stored.  Requests
\* that would open an overlay lane above MaxTrackId are not made.
Applied(kind, r) ==
    /\ \A k \in DOMAIN r.tl : r.tl[k].id <= MaxTrackId
    /\ lastOp' = [kind |-> kind, ok |-> r.ok, pre |-> Magnetic(tl)]
    /\ IF r.ok
       THEN tl' = r.tl /\ nops' = nops + 1 /\ UNCHANGED tpc
       ELSE tl' = EmptyTimeline /\ nops' = 0 /\ tpc' = "idle"
    /\ UNCHANGED <<persisted, batches>>
    /\ TimelineFrame

T_SplitClip(c, p) ==
    InBatch /\ CanAddClip /\ Applied("SplitClip", SplitClip(tl, c, p, Uuid))
T_TrimClip(c, i, o) ==
    InBatch /\ Applied("TrimClip", TrimClip(tl, c, i, o))
T_DeleteClip(c) ==
    InBatch /\ Applied("DeleteClip", DeleteClip(tl, c))
T_InsertClip(a, p, tr, d) ==
    InBatch /\ CanAddClip /\ Applied("InsertClip", InsertClip(tl, a, p, tr, d, Uuid))
T_MoveClip(c, p) ==
    InBatch /\ Applied("MoveClip", MoveClip(tl, c, p))
T_ReorderClip(c, p) ==
    InBatch /\ Applied("ReorderClip", ReorderClip(tl, c, p))
T_MoveClipToTrack(c, tr) ==
    InBatch /\ Applied("MoveClipToTrack", MoveClipToTrack(tl, c, tr))
T_RippleInsertClip(a, p, d) ==
    InBatch /\ CanAddClip
    /\ Applied("RippleInsertClip", RippleInsertClip(tl, a, p, d, Uuid))
T_OverwriteClip(a, p, d) ==
    InBatch /\ CanAddClip /\ Applied("OverwriteClip", OverwriteClip(tl, a, p, d, Uuid))
T_InsertLayeredClip(a, p, d, tr) ==
    InBatch /\ CanAddClip
    /\ Applied("InsertLayeredClip", InsertLayeredClip(tl, a, p, d, tr, Uuid))
T_ConvertPrimaryToOverlay(c, p) ==
    InBatch /\ Applied("ConvertPrimaryToOverlay", ConvertPrimaryToOverlay(tl, c, p))
T_ConvertOverlayToPrimary(c, p) ==
    InBatch /\ Applied("ConvertOverlayToPrimary", ConvertOverlayToPrimary(tl, c, p))
T_ConsolidateTimeline ==
    InBatch /\ Applied("ConsolidateTimeline", ConsolidateTimeline(tl))
T_ClearTimeline ==
    InBatch /\ Applied("ClearTimeline", ClearTimeline(tl))

\* Every operation was Ok: consolidate_timeline, then the entry point's store.
T_Commit(entry) ==
    /\ tpc # "idle"
    /\ persisted' = IF entry = "apply_operations"
                    THEN store_timeline(consolidate_timeline(tl))
                    ELSE store_timeline_version(consolidate_timeline(tl))
    /\ tpc' = "idle"
    /\ tl' = EmptyTimeline
    /\ nops' = 0
    /\ lastOp' = [kind |-> "committed", ok |-> TRUE, pre |-> Magnetic(tl)]
    /\ UNCHANGED batches
    /\ TimelineFrame

NextTimeline ==
    \/ T_Begin
    \/ \E c \in ClipIds, p \in Ticks : T_SplitClip(c, p)
    \/ \E c \in ClipIds, r \in TrimRanges : T_TrimClip(c, r[1], r[2])
    \/ \E c \in ClipIds : T_DeleteClip(c)
    \/ \E a \in AssetIds, p \in Ticks, tr \in TrackIds, d \in Durations :
          T_InsertClip(a, p, tr, d)
    \/ \E c \in ClipIds, p \in Ticks : T_MoveClip(c, p)
    \/ \E c \in ClipIds, p \in Ticks : T_ReorderClip(c, p)
    \/ \E c \in ClipIds, tr \in TrackIds : T_MoveClipToTrack(c, tr)
    \/ \E a \in AssetIds, p \in Ticks, d \in Durations : T_RippleInsertClip(a, p, d)
    \/ \E a \in AssetIds, p \in Ticks, d \in Durations : T_OverwriteClip(a, p, d)
    \/ \E a \in AssetIds, p \in Ticks, d \in Durations, tr \in TrackIds :
          T_InsertLayeredClip(a, p, d, tr)
    \/ \E c \in ClipIds, p \in Ticks : T_ConvertPrimaryToOverlay(c, p)
    \/ \E c \in ClipIds, p \in Ticks : T_ConvertOverlayToPrimary(c, p)
    \/ T_ConsolidateTimeline
    \/ T_ClearTimeline
    \/ \E e \in EntryPoints : T_Commit(e)

SpecTimeline ==
    InitTimeline /\ [][NextTimeline]_vars

(***************************************************************************)
(* C2: whatever the operation kind, when the primary track satisfies M1-M3 *)
(* before apply_operation and the call returns Ok, the primary track       *)
(* satisfies M1-M3 right after that one operation.                         *)
(***************************************************************************)
C2_OperationKeepsMagnetic ==
    (lastOp.kind # "none" /\ lastOp.pre /\ lastOp.ok) => Magnetic(tl)

(***************************************************************************)
(* C9: the timeline a batch has persisted has a primary track, whose first *)
(* clip starts at 0 and whose every next clip starts where the clip before *)
(* it ends.                                                                *)
(***************************************************************************)
C9_PersistedPrimaryContiguous ==
    persisted.exists =>
        /\ TrackIndex(persisted.tracks, 1) # 0
        /\ M2(PrimaryClips(persisted.tracks))
        /\ M3(PrimaryClips(persisted.tracks))

\* A batch that left the primary track with a gap was persisted with two
\* clips on the primary track.
C9_Witness ==
    /\ persisted.exists
    /\ Len(PrimaryClips(persisted.tracks)) >= 2
    /\ tpc = "idle"
    /\ lastOp.kind = "committed"
    /\ ~lastOp.pre

(***************************************************************************)
(* jobs/build_segments.rs and the segments table (db/mod.rs).              *)
(***************************************************************************)
MaxDuration == 5
MaxSegmentImports == 2

\* (SEGMENT_DURATION_SECONDS * TICKS_PER_SECOND) as i64, in model ticks.
segment_duration_ticks == 2

\* Database::create_segment: an INSERT; start/end mirror src_in/src_out.
create_segment(segs, project_id, media_asset_id, src_in_ticks, src_out_ticks) ==
    Append(segs, [project_id     |-> project_id,
                  media_asset_id |-> media_asset_id,
                  src_in_ticks   |-> src_in_ticks,
                  src_out_ticks  |-> src_out_ticks,
                  start_ticks    |-> src_in_ticks,
                  end_ticks      |-> src_out_ticks,
                  dedupe_key     |-> NoKey])

\* The rows of the segments table that belong to an asset, with their ids.
SegmentRows(segs, asset_id) ==
    {[id |-> i, row |-> segs[i]] : i \in {k \in DOMAIN segs : segs[k].media_asset_id = asset_id}}

(***************************************************************************)
(* SpecSegments: files are imported (a path may be imported again), and    *)
(* the scheduler task runs process_job on the Pending BuildSegments jobs,   *)
(* one at a time.                                                          *)
(***************************************************************************)
SegmentsFrame ==
    UNCHANGED <<inflight, conn, imports, ensureLog, dirty, pollLog, procVars, timelineVars,
                orchVars, retrievalVars, storeVars, runVars>>

InitSegments ==
    /\ JobsInit0 /\ DaemonInit0 /\ ProcInit0 /\ TimelineInit0
    /\ media \in [Paths -> 0..MaxDuration]
    /\ segments = << >> /\ build = NoBuild /\ lastBuild = NoLastBuild
    /\ OrchInit0 /\ RetrievalInit0 /\ StoreInit0 /\ RunInit0

\* One file is imported: the request, its task and process_single_video.
B_Import(path) ==
    /\ Cardinality({j \in DOMAIN jobs : jobs[j].type = "ImportRaw"}) < MaxSegmentImports
    /\ jobs' = ImportedOneFile(jobs, assets, 1, path).jobs
    /\ assets' = ImportedOneFile(jobs, assets, 1, path).assets
    /\ UNCHANGED segmentVars
    /\ SegmentsFrame

\* process_job marks the job Running and calls process_build_segments, which
\* reads the asset's path and project and probes the file (lines 21-42).
B_Start(j) ==
    /\ build = NoBuild
    /\ j \in DOMAIN jobs
    /\ jobs[j].type = "BuildSegments" /\ jobs[j].status = "Pending"
    /\ extract_asset_id(jobs[j].payload) \in DOMAIN assets
    /\ LET a == extract_asset_id(jobs[j].payload)
       IN build' = [job                |-> j,
                    asset_id           |-> a,
                    project_id         |-> assets[a].project,
                    duration_ticks     |-> media[assets[a].path],
                    current_time_ticks |-> 0,
                    stamped            |-> "segments_built_at" \in assets[a].stamps,
                    before             |-> SegmentRows(segments, a)]
    /\ jobs' = update_job_status(jobs, j, "Running", 0)
    /\ UNCHANGED <<assets, media, segments, lastBuild>>
    /\ SegmentsFrame

\* The iteration without .min(duration_ticks): every window is
\* segment_duration_ticks long.
B_SegmentUnclamped ==
    /\ build.job # 0
    /\ build.current_time_ticks < build.duration_ticks
    /\ LET segment_end_ticks == build.current_time_ticks + segment_duration_ticks
       IN /\ segments' = create_segment(segments, build.project_id, build.asset_id,
                                        build.current_time_ticks, segment_end_ticks)
          /\ build' = [build EXCEPT !.current_time_ticks = segment_end_ticks]
          /\ jobs' = update_job_status(jobs, build.job, "Running",
                                       (segment_end_ticks * 100) \div build.duration_ticks)
    /\ UNCHANGED <<assets, media, lastBuild>>
    /\ SegmentsFrame

\* One iteration of the while loop (lines 44-61).
B_Segment ==
    /\ build.job # 0
    /\ build.current_time_ticks < build.duration_ticks
    /\ LET segment_end_ticks ==
               Min({build.current_time_ticks + segment_duration_ticks, build.duration_ticks})
       IN /\ segments' = create_segment(segments, build.project_id, build.asset_id,
                                        build.current_time_ticks, segment_end_ticks)
          /\ build' = [build EXCEPT !.current_time_ticks = segment_end_ticks]
          /\ jobs' = update_job_status(jobs, build.job, "Running",
                                       (segment_end_ticks * 100) \div build.duration_ticks)
    /\ UNCHANGED <<assets, media, lastBuild>>
    /\ SegmentsFrame

\* The loop is over: the stamp, then Completed (lines 64-67).
B_Finish ==
    /\ build.job # 0
    /\ build.current_time_ticks >= build.duration_ticks
    /\ assets' = update_asset_analysis_state(assets, build.asset_id, "segments_built_at")
    /\ jobs' = update_job_status(jobs, build.job, "Completed", 100)
    /\ lastBuild' = [job      |-> build.job,
                     asset_id |-> build.asset_id,
                     stamped  |-> build.stamped,
                     duration_ticks |-> build.duration_ticks,
                     before   |-> build.before,
                     after    |-> SegmentRows(segments, build.asset_id)]
    /\ build' = NoBuild
    /\ UNCHANGED <<media, segments>>
    /\ SegmentsFrame

NextSegments ==
    \/ \E path \in Paths : B_Import(path)
    \/ \E j \in DOMAIN jobs : B_Start(j)
    \/ B_Segment
    \/ B_Finish

SpecSegments ==
    InitSegments /\ [][NextSegments]_vars

(***************************************************************************)
(* C11: a BuildSegments run on an asset whose segments_built_at stamp was  *)
(* already set leaves the asset's segment rows as they were before the run.*)
(***************************************************************************)
C11_RebuildIsNoOp ==
    lastBuild.stamped => lastBuild.after = lastBuild.before

(***************************************************************************)
(* api/orchestrator.rs: the preconditions snapshot and the mode decision.  *)
(***************************************************************************)
MaxSegments == 5
MaxCount == 1

\* An f32 ratio as a pair <<numerator, denominator>>, and a < b on such pairs.
Ratio(n, d) == <<n, d>>
Less(a, b) == a[1] * b[2] < b[1] * a[2]

\* const COVERAGE_THRESHOLD: f32 = 0.8
COVERAGE_THRESHOLD == Ratio(4, 5)

\* The ProjectState that check_project_preconditions builds (lines 297-302,
\* 405-413) from the counts it has read.
ProjectState(media_assets_count, segments_count, segments_with_text_embeddings,
             jobs_running_count) ==
    [media_assets_count            |-> media_assets_count,
     segments_count                |-> segments_count,
     segments_with_text_embeddings |-> segments_with_text_embeddings,
     embedding_coverage            |-> IF segments_count > 0
                                       THEN Ratio(segments_with_text_embeddings, segments_count)
                                       ELSE Ratio(0, 1),
     jobs_running_count            |-> jobs_running_count]

\* check_project_preconditions: raw assets of the project; segments of the
\* project; those with a text embedding; the Running or Pending jobs whose
\* payload has an "asset_id" that is one of the project's assets.
check_project_preconditions(as, segs, embs, js, project_id) ==
    LET asset_ids == {i \in DOMAIN as : as[i].project = project_id}
        project_segments == {i \in DOMAIN segs : segs[i].project_id = project_id}
    IN ProjectState(
           Cardinality(RawAssets(as, project_id)),
           Cardinality(project_segments),
           Cardinality(project_segments \cap embs),
           IF asset_ids = {} THEN 0
           ELSE Cardinality({j \in DOMAIN js :
                    /\ js[j].status \in {to_string("Running"), to_string("Pending")}
                    /\ js[j].payload.asset_id # NoAsset
                    /\ js[j].payload.asset_id \in asset_ids}))

\* The user intents of the model, and those of them whose lowercase form
\* contains one of the ambiguous phrases (lines 445-454).
Intents == {"", "a trip montage", "please Fix This"}
ContainsAmbiguousPhrase(user_intent) == user_intent \in {"please Fix This"}

\* determine_mode with its second and fourth checks exchanged.
determine_mode_busy_first(user_intent, state, is_destructive, confirm_token) ==
    IF is_destructive /\ confirm_token = NoToken THEN "TalkConfirm"
    ELSE IF state.jobs_running_count > 0 \/ Less(state.embedding_coverage, COVERAGE_THRESHOLD)
         THEN "Busy"
    ELSE IF state.segments_count = 0 THEN "TalkAnalyze"
    ELSE IF state.media_assets_count = 0 THEN "TalkImport"
    ELSE IF ContainsAmbiguousPhrase(user_intent) THEN "TalkClarify"
    ELSE "Act"

determine_mode(user_intent, state, is_destructive, confirm_token) ==
    IF is_destructive /\ confirm_token = NoToken THEN "TalkConfirm"
    ELSE IF state.media_assets_count = 0 THEN "TalkImport"
    ELSE IF state.segments_count = 0 THEN "TalkAnalyze"
    ELSE IF state.jobs_running_count > 0 \/ Less(state.embedding_coverage, COVERAGE_THRESHOLD)
         THEN "Busy"
    ELSE IF ContainsAmbiguousPhrase(user_intent) THEN "TalkClarify"
    ELSE "Act"

\* mode_to_string
mode_to_string(mode) ==
    IF mode = "Busy" THEN "busy" ELSE IF mode = "Act" THEN "act" ELSE "talk"

(***************************************************************************)
(* SpecMode: determine_mode called on every project state, destructive     *)
(* flag, confirm token and intent of the model.                            *)
(***************************************************************************)
ModeFrame ==
    UNCHANGED <<jobVars, daemonVars, procVars, timelineVars, segmentVars,
                goals, proposals, applies, messages, embeds, reqs, nreq, lastResp,
                retrievalVars, storeVars, runVars>>

InitMode == JobsInit0 /\ DaemonInit0 /\ ProcInit0 /\ TimelineInit0 /\ ExtInit0

M_Decide(n_media, n_segments, with_text, running, is_destructive, confirm_token, user_intent) ==
    /\ decision' =
           [called                        |-> TRUE,
            media_assets_count            |-> n_media,
            segments_count                |-> n_segments,
            segments_with_text_embeddings |-> with_text,
            jobs_running_count            |-> running,
            is_destructive                |-> is_destructive,
            confirm_token                 |-> confirm_token,
            user_intent                   |-> user_intent,
            mode |-> determine_mode(user_intent,
                                    ProjectState(n_media, n_segments, with_text, running),
                                    is_destructive, confirm_token)]
    /\ ModeFrame

NextMode ==
    \E n_media \in 0..MaxCount, n_segments \in 0..MaxSegments, running \in 0..MaxCount,
       is_destructive \in BOOLEAN, confirm_token \in {NoToken, "overwrite"},
       user_intent \in Intents :
        \E with_text \in 0..n_segments :
            M_Decide(n_media, n_segments, with_text, running, is_destructive, confirm_token, user_intent)

SpecMode ==
    InitMode /\ [][NextMode]_vars

(***************************************************************************)
(* C14: determine_mode answers with the first of TalkConfirm, TalkImport,  *)
(* TalkAnalyze, Busy, TalkClarify, Act whose condition holds, where the    *)
(* condition of Busy is: a job is running for the project, or fewer than   *)
(* 80% of the segments have a text embedding.                              *)
(***************************************************************************)
C14_FirstMatchingMode ==
    decision.called =>
        LET d == decision
            order == <<"TalkConfirm", "TalkImport", "TalkAnalyze", "Busy", "TalkClarify", "Act">>
            holds == <<d.is_destructive /\ d.confirm_token = NoToken,
                       d.media_assets_count = 0,
                       d.segments_count = 0,
                       \/ d.jobs_running_count > 0
                       \/ d.segments_count = 0
                       \/ 100 * d.segments_with_text_embeddings < 80 * d.segments_count,
                       ContainsAmbiguousPhrase(d.user_intent),
                       TRUE>>
        IN \A k \in 1..6 :
               (d.mode = order[k]) <=> (holds[k] /\ \A j \in 1..(k - 1) : ~holds[j])

\* No media assets while a job is running: the answer is TalkImport.
C14_Witness ==
    /\ decision.called
    /\ decision.media_assets_count = 0
    /\ decision.jobs_running_count > 0
    /\ ~decision.is_destructive
    /\ decision.mode = "TalkImport"

\* Exactly 80% of the segments are covered and no job runs: not Busy.
C14_WitnessThreshold ==
    /\ decision.called
    /\ decision.segments_count = 5 /\ decision.segments_with_text_embeddings = 4
    /\ decision.mode \in {"TalkClarify", "Act"}

(***************************************************************************)
(* The orchestrator goals table and the history tables (db/mod.rs).        *)
(***************************************************************************)
\* The statuses of a goal that is not over.
ActiveStatuses == {"needs_analysis", "ready_to_propose", "proposed", "planned", "applied"}

\* db.get_active_orchestrator_goals: the ids of the project's goals that are
\* not over; its first element is the most recent one.
get_active_orchestrator_goals(gs, project_id) ==
    {i \in DOMAIN gs : gs[i].project = project_id /\ gs[i].status \in ActiveStatuses}
MostRecent(ids) == IF ids = {} THEN 0 ELSE Max(ids)

\* db.create_orchestrator_goal
create_orchestrator_goal(gs, project_id, status) ==
    Append(gs, [project |-> project_id, status |-> status])

\* db.update_orchestrator_goal_status
update_orchestrator_goal_status(gs, goal_id, status) ==
    IF goal_id \in DOMAIN gs THEN [gs EXCEPT ![goal_id].status = status] ELSE gs

\* db.get_orchestrator_goal_by_status: the project's most recent goal with
\* this status, 0 for None.
get_orchestrator_goal_by_status(gs, project_id, status) ==
    MostRecent({i \in DOMAIN gs : gs[i].project = project_id /\ gs[i].status = status})

\* `if let Ok(Some((goal_id, _))) = get_orchestrator_goal_by_status(..., from)
\*  { update_orchestrator_goal_status(goal_id, to) }`
AdvanceGoal(gs, project_id, from, to) ==
    update_orchestrator_goal_status(gs, get_orchestrator_goal_by_status(gs, project_id, from), to)

\* Database::store_orchestrator_message / _proposal / _apply: an INSERT.
store_orchestrator_message(rows, project_id, role) ==
    Append(rows, [project |-> project_id, role |-> role])
store_orchestrator_proposal(rows, project_id) == Append(rows, [project |-> project_id])
store_orchestrator_apply(rows, project_id) == Append(rows, [project |-> project_id])

\* apply, lines 1290-1302: the stored timeline has a clip on some track.
has_existing_clips(row) ==
    row.exists /\ \E k \in DOMAIN row.tracks : row.tracks[k].clips # << >>

\* What a request answers with and what it has written.
Resp(kind, status, mode, wrote, clips, confirm, applied, advanced) ==
    [kind |-> kind, status |-> status, mode |-> mode, wrote |-> wrote,
     clips |-> clips, confirm |-> confirm, applied |-> applied, advanced |-> advanced]

(***************************************************************************)
(* SpecOrch: propose, plan and apply requests on a project whose store     *)
(* holds some footage, segments, embeddings, jobs and maybe a timeline.    *)
(* The handlers run on a multi-threaded runtime: between two database      *)
(* calls of propose, other requests run.  The LLM, the retrieval and the   *)
(* plan service answer or fail.                                            *)
(***************************************************************************)
MaxRequests == 3
MaxOrchSegments == 2
ConfirmTokens == {NoToken, "overwrite", "new_version"}

OrchFrame ==
    UNCHANGED <<inflight, imports, ensureLog, dirty, pollLog, procVars,
                tl, tpc, nops, batches, lastOp, media, build, lastBuild, decision,
                retrievalVars, storeVars, runVars>>

InitOrch ==
    /\ inflight = {} /\ conn = "free" /\ imports = << >> /\ ensureLog = << >>
    /\ dirty = FALSE /\ pollLog = NoPoll
    /\ ProcInit0
    /\ tl = EmptyTimeline /\ tpc = "idle" /\ nops = 0 /\ batches = 0 /\ lastOp = NoOp
    /\ media = << >> /\ build = NoBuild /\ lastBuild = NoLastBuild
    /\ goals = << >> /\ proposals = << >> /\ applies = << >> /\ messages = << >>
    /\ reqs = << >> /\ nreq = 0 /\ lastResp = NoResp /\ decision = NoDecision
    /\ RetrievalInit0 /\ StoreInit0 /\ RunInit0
    /\ \E has_asset \in BOOLEAN, n \in 0..MaxOrchSegments, has_job \in BOOLEAN :
          /\ has_asset \/ (n = 0 /\ ~has_job)
          /\ assets = IF has_asset
                      THEN <<[project |-> 1, path |-> "a.mp4", is_reference |-> FALSE,
                              stamps |-> IF n > 0 THEN {"segments_built_at"} ELSE {}]>>
                      ELSE << >>
          /\ segments = [i \in 1..n |-> create_segment(<< >>, 1, 1, i - 1, i)[1]]
          /\ embeds \in SUBSET (1..n)
          /\ jobs = IF has_job
                    THEN create_job(<< >>, "BuildSegments",
                                    Payload(1, NoAsset, FALSE, NoProject), NoKey).jobs
                    ELSE << >>
    /\ persisted \in {NoTimeline, store_timeline(<<Track(1, <<Clip(1, 1, 0, 1, 0, 1)>>)>>)}

\* propose, lines 780-801: the snapshot, the mode, the active goals.
O_Propose(project_id, user_intent) ==
    /\ conn = "free"
    /\ nreq < MaxRequests
    /\ nreq' = nreq + 1
    /\ LET state == check_project_preconditions(assets, segments, embeds, jobs, project_id)
       IN reqs' = reqs @@ (nreq + 1 :>
               [project_id  |-> project_id,
                user_intent |-> user_intent,
                mode        |-> determine_mode(user_intent, state, FALSE, NoToken),
                active      |-> get_active_orchestrator_goals(goals, project_id),
                pc          |-> IF user_intent # "" THEN "goal" ELSE "respond",
                wrote       |-> FALSE])
    /\ UNCHANGED <<jobs, assets, conn, segments, persisted, goals, proposals, applies,
                   messages, embeds, lastResp>>
    /\ OrchFrame

\* propose, lines 803-811: a goal is created, or the most recent one updated.
O_ProposeGoal(r) ==
    /\ conn = "free"
    /\ r \in DOMAIN reqs
    /\ reqs[r].pc = "goal"
    /\ LET initial_status == IF reqs[r].mode = "Act" THEN "ready_to_propose"
                             ELSE "needs_analysis"
           gs == IF reqs[r].active = {}
                 THEN create_orchestrator_goal(goals, reqs[r].project_id, initial_status)
                 ELSE update_orchestrator_goal_status(goals, MostRecent(reqs[r].active),
                                                      initial_status)
       IN /\ goals' = gs
          /\ reqs' = [reqs EXCEPT ![r].pc = "respond", ![r].wrote = (gs # goals)]
    /\ UNCHANGED <<jobs, assets, conn, segments, persisted, proposals, applies, messages,
                   embeds, nreq, lastResp>>
    /\ OrchFrame

Others(r) == [q \in DOMAIN reqs \ {r} |-> reqs[q]]

\* propose, lines 814-893, on TalkAnalyze or Busy: ensure_ready, which does
\* not come back from get_asset_states when the project has a raw asset.
O_ProposeEnsure(r) ==
    /\ conn = "free"
    /\ r \in DOMAIN reqs
    /\ reqs[r].pc = "respond"
    /\ reqs[r].mode \in {"TalkAnalyze", "Busy"}
    /\ LET g == get_asset_states(assets, reqs[r].project_id)
       IN /\ conn' \in g.conn
          /\ IF g.returns
             THEN /\ reqs' = [reqs EXCEPT ![r].pc = "message"]
                  /\ UNCHANGED lastResp
             ELSE /\ reqs' = Others(r)
                  /\ lastResp' = Resp("propose", "none", "none", reqs[r].wrote,
                                      FALSE, NoToken, FALSE, FALSE)
    /\ UNCHANGED <<jobs, assets, segments, persisted, goals, proposals, applies, messages,
                   embeds, nreq>>
    /\ OrchFrame

\* propose, lines 895-924 and 1130-1158: the reply is the LLM's message.
O_ProposeTalk(r, llm_ok) ==
    /\ conn = "free"
    /\ r \in DOMAIN reqs
    /\ \/ reqs[r].pc = "respond" /\ reqs[r].mode \in {"TalkImport", "TalkClarify", "TalkConfirm"}
       \/ reqs[r].pc = "message"
    /\ messages' = IF llm_ok
                   THEN store_orchestrator_message(messages, reqs[r].project_id, "assistant")
                   ELSE messages
    /\ lastResp' = Resp("propose", IF llm_ok THEN "envelope" ELSE "error", reqs[r].mode,
                        reqs[r].wrote \/ llm_ok, FALSE, NoToken, FALSE, FALSE)
    /\ reqs' = Others(r)
    /\ UNCHANGED <<jobs, assets, conn, segments, persisted, goals, proposals, applies,
                   embeds, nreq>>
    /\ OrchFrame

\* propose, lines 925-1129, on Act: retrieval, narrative reasoning, the
\* proposal, the goal, the message.
O_ProposeAct(r, outcome) ==
    /\ conn = "free"
    /\ r \in DOMAIN reqs
    /\ reqs[r].pc = "respond"
    /\ reqs[r].mode = "Act"
    /\ LET p == reqs[r].project_id
           stored == outcome \in {"llm_error", "ok"}
           gs == IF stored THEN AdvanceGoal(goals, p, "ready_to_propose", "proposed") ELSE goals
           said == outcome \in {"no_candidates", "ok"}
       IN /\ proposals' = IF stored THEN store_orchestrator_proposal(proposals, p)
                          ELSE proposals
          /\ goals' = gs
          /\ messages' = IF said THEN store_orchestrator_message(messages, p, "assistant")
                         ELSE messages
          /\ lastResp' = Resp("propose", IF said THEN "envelope" ELSE "error",
                              IF outcome = "no_candidates" THEN "Talk" ELSE "Act",
                              reqs[r].wrote \/ stored \/ said, FALSE, NoToken, FALSE,
                              gs # goals)
    /\ reqs' = Others(r)
    /\ UNCHANGED <<jobs, assets, conn, segments, persisted, applies, embeds, nreq>>
    /\ OrchFrame

\* plan, lines 1163-1280.
O_Plan(project_id, beats_empty, outcome) ==
    /\ conn = "free"
    /\ nreq < MaxRequests
    /\ nreq' = nreq + 1
    /\ LET state == check_project_preconditions(assets, segments, embeds, jobs, project_id)
           talk == state.segments_count = 0 \/ beats_empty
           planned == ~talk /\ outcome # "plan_error"
           gs == IF planned THEN AdvanceGoal(goals, project_id, "proposed", "planned")
                 ELSE goals
           said == outcome = "ok"
       IN /\ talk => outcome # "plan_error"
          /\ goals' = gs
          /\ messages' = IF said
                         THEN store_orchestrator_message(messages, project_id, "assistant")
                         ELSE messages
          /\ applies' = IF planned /\ said THEN store_orchestrator_apply(applies, project_id)
                        ELSE applies
          /\ lastResp' = Resp("plan", IF said THEN "envelope" ELSE "error",
                              IF talk THEN "TalkAnalyze" ELSE "Act",
                              gs # goals \/ said, FALSE, NoToken, FALSE, gs # goals)
    /\ UNCHANGED <<jobs, assets, conn, segments, persisted, proposals, embeds, reqs>>
    /\ OrchFrame

\* apply, lines 1283-1346: a timeline with clips and no confirmation.
O_ApplyConfirm(project_id, confirm, llm_ok) ==
    /\ conn = "free"
    /\ nreq < MaxRequests
    /\ nreq' = nreq + 1
    /\ has_existing_clips(persisted)
    /\ confirm \notin {"new_version", "overwrite"}
    /\ messages' = IF llm_ok THEN store_orchestrator_message(messages, project_id, "assistant")
                   ELSE messages
    /\ lastResp' = Resp("apply", IF llm_ok THEN "envelope" ELSE "error", "TalkConfirm",
                        llm_ok, TRUE, confirm, FALSE, FALSE)
    /\ UNCHANGED <<jobs, assets, conn, segments, persisted, goals, proposals, applies,
                   embeds, reqs>>
    /\ OrchFrame

\* apply, lines 1283-1309 and 1348-1363: the plan is stored, the goal
\* completed, and the answer is NOT_IMPLEMENTED.
O_ApplyStore(project_id, confirm) ==
    /\ conn = "free"
    /\ nreq < MaxRequests
    /\ nreq' = nreq + 1
    /\ ~(has_existing_clips(persisted) /\ confirm \notin {"new_version", "overwrite"})
    /\ applies' = store_orchestrator_apply(applies, project_id)
    /\ LET goal_id == get_orchestrator_goal_by_status(goals, project_id, "planned")
       IN /\ goals' = IF goal_id # 0
                      THEN update_orchestrator_goal_status(
                               update_orchestrator_goal_status(goals, goal_id, "applied"),
                               goal_id, "completed")
                      ELSE goals
          /\ lastResp' = Resp("apply", "error", "none", TRUE,
                              has_existing_clips(persisted), confirm, TRUE, goal_id # 0)
    /\ UNCHANGED <<jobs, assets, conn, segments, persisted, proposals, messages, embeds, reqs>>
    /\ OrchFrame

NextOrch ==
    \/ \E p \in Projects, i \in Intents : O_Propose(p, i)
    \/ \E r \in 1..MaxRequests : O_ProposeGoal(r)
    \/ \E r \in 1..MaxRequests : O_ProposeEnsure(r)
    \/ \E r \in 1..MaxRequests, llm_ok \in BOOLEAN : O_ProposeTalk(r, llm_ok)
    \/ \E r \in 1..MaxRequests,
          o \in {"retrieval_error", "no_candidates", "narrative_error", "llm_error", "ok"} :
          O_ProposeAct(r, o)
    \/ \E p \in Projects, b \in BOOLEAN, o \in {"plan_error", "llm_error", "ok"} :
          O_Plan(p, b, o)
    \/ \E p \in Projects, c \in ConfirmTokens, llm_ok \in BOOLEAN : O_ApplyConfirm(p, c, llm_ok)
    \/ \E p \in Projects, c \in ConfirmTokens : O_ApplyStore(p, c)

SpecOrch ==
    InitOrch /\ [][NextOrch]_vars

(***************************************************************************)
(* C12: a propose, plan or apply request that is answered with an error    *)
(* status has created or changed no goal, proposal, applied-plan, message  *)
(* or job row.                                                             *)
(***************************************************************************)
C12_ErrorMeansNothingWritten ==
    lastResp.status = "error" => ~lastResp.wrote

(***************************************************************************)
(* C13: apply on a project whose timeline has a clip, with no confirm      *)
(* token, answers with the TalkConfirm envelope, stores no applied plan    *)
(* and does not advance the goal.                                          *)
(***************************************************************************)
C13_ApplyWithoutTokenConfirms ==
    (lastResp.kind = "apply" /\ lastResp.clips /\ lastResp.confirm = NoToken) =>
        /\ lastResp.status = "envelope"
        /\ lastResp.mode = "TalkConfirm"
        /\ ~lastResp.applied
        /\ ~lastResp.advanced

(***************************************************************************)
(* C15: a project never has more than one goal that is not over.           *)
(***************************************************************************)
C15_OneActiveGoalPerProject ==
    \A p \in Projects : Cardinality(get_active_orchestrator_goals(goals, p)) <= 1

(***************************************************************************)
(* retrieval/: the two backends and the dispatcher retrieve_candidates.    *)
(***************************************************************************)
MaxRetrievalImports == 1
MaxRetrievalSegments == 3
MaxIndexJobs == 1
MaxHits == 1

RetrievalProjects == {1, 2}
RetrievalBackends == {"twelvelabs", "local", "twelvelabs_then_local"}

\* The video id the search service assigns to an uploaded asset; ids of
\* different assets differ.  UnknownVideo is an id no asset carries.
VideoId(asset_id) == asset_id + 100
UnknownVideo == VideoId(0)

\* The (start, end) of a hit, in ticks.
HitRanges == {<<0, 2>>, <<2, 3>>, <<1, 5>>}
Hit(video_id, range) == [video_id |-> video_id, start_ticks |-> range[1], end_ticks |-> range[2]]

\* embeddings::similarity_search: the embedded segments that pass the WHERE
\* clause; the JOINs need the segment row and its asset row to exist.
similarity_search(embs, segs, as, project_id, raw_segments_only) ==
    {s \in embs \cap DOMAIN segs :
        /\ segs[s].media_asset_id \in DOMAIN as
        /\ raw_segments_only => ~as[segs[s].media_asset_id].is_reference
        /\ segs[s].project_id = project_id}

\* LocalEmbeddingsBackend::retrieve_candidates: embed the intent (the ML
\* service may fail), search the fusion rows of the project's raw segments,
\* keep the hits whose segment row get_segment_with_embeddings finds.
LocalRetrieve(as, segs, fus, project_id, embed_ok) ==
    [ok              |-> embed_ok,
     candidates      |-> IF embed_ok
                         THEN similarity_search(fus, segs, as, project_id, TRUE)
                         ELSE {},
     segments        |-> segs,
     backend_used    |-> "local_embeddings",
     fallback_reason |-> "null"]

\* The asset a hit belongs to: "WHERE twelvelabs_video_id = ?1 AND project_id = ?2".
AssetByVideoId(as, vids, video_id, project_id) ==
    {a \in DOMAIN vids : vids[a] = video_id /\ a \in DOMAIN as /\ as[a].project = project_id}

\* Database::get_segments_by_asset: the ids of the asset's segments.
get_segments_by_asset(segs, asset_id) ==
    {i \in DOMAIN segs : segs[i].media_asset_id = asset_id}

\* overlap_end - overlap_start of a hit and a segment (may be <= 0).
Overlap(seg, start_ticks, end_ticks) ==
    Min({end_ticks, seg.end_ticks}) - Max({start_ticks, seg.start_ticks})

\* The segments the loop may snap to: a positive overlap that covers at
\* least 40% of the hit, or the hit's midpoint inside the segment.
SnapCandidates(segs, asset_id, start_ticks, end_ticks) ==
    LET tl_range    == end_ticks - start_ticks
        tl_midpoint == start_ticks + tl_range \div 2
    IN {i \in get_segments_by_asset(segs, asset_id) :
          LET overlap == Overlap(segs[i], start_ticks, end_ticks)
              midpoint_inside ==
                  tl_midpoint >= segs[i].start_ticks /\ tl_midpoint <= segs[i].end_ticks
          IN /\ overlap > 0
             /\ \/ (IF tl_range > 0 THEN overlap * 100 >= 40 * tl_range ELSE TRUE)
                \/ midpoint_inside}

\* The first of the segments Q, in the order of get_segments_by_asset
\* (start_ticks, then id), among those with the greatest overlap; 0 for None.
FirstWithMostOverlap(Q, segs, start_ticks, end_ticks) ==
    IF Q = {} THEN 0
    ELSE CHOOSE i \in Q : \A j \in Q \ {i} :
            \/ Overlap(segs[j], start_ticks, end_ticks) < Overlap(segs[i], start_ticks, end_ticks)
            \/ /\ Overlap(segs[j], start_ticks, end_ticks) = Overlap(segs[i], start_ticks, end_ticks)
               /\ \/ segs[i].start_ticks < segs[j].start_ticks
                  \/ segs[i].start_ticks = segs[j].start_ticks /\ i < j

\* best_segment_id after the loop over the asset's segments (lines 143-183).
BestSegment(segs, asset_id, start_ticks, end_ticks) ==
    FirstWithMostOverlap(SnapCandidates(segs, asset_id, start_ticks, end_ticks),
                         segs, start_ticks, end_ticks)

\* Database::get_or_create_dynamic_segment: the segment with the dedupe
\* key if there is one, else a new row with that key.
get_or_create_dynamic_segment(segs, asset_id, project_id, src_in, src_out, dedupe_key) ==
    LET existing == {i \in DOMAIN segs : segs[i].dedupe_key = dedupe_key}
    IN IF existing # {}
       THEN [segments |-> segs, id |-> Min(existing)]
       ELSE [segments |-> Append(segs, [create_segment(<< >>, project_id, asset_id,
                                                       src_in, src_out)[1]
                                        EXCEPT !.dedupe_key = dedupe_key]),
             id |-> Len(segs) + 1]

\* The segment of a hit on an asset: the one it snaps to, else a dynamic one.
SegmentOfHit(best, dyn, segs, candidates) ==
    IF best # 0
    THEN [segments |-> segs, candidates |-> candidates \cup {best}]
    ELSE [segments |-> dyn.segments, candidates |-> candidates \cup {dyn.id}]

\* The hit on a known asset (lines 143-236).
MapHitOnAsset(h, asset_id, segs, project_id, candidates) ==
    SegmentOfHit(BestSegment(segs, asset_id, h.start_ticks, h.end_ticks),
                 get_or_create_dynamic_segment(
                     segs, asset_id, project_id, h.start_ticks, h.end_ticks,
                     <<asset_id, h.start_ticks, h.end_ticks, "twelvelabs">>),
                 segs, candidates)

\* One iteration of the loop over the search results (lines 117-239): a hit
\* whose video id no asset of the project carries is skipped; any other
\* snaps to a segment or gets a dynamic one, which becomes a candidate.
MapHit(h, as, vids, segs, project_id, candidates) ==
    IF AssetByVideoId(as, vids, h.video_id, project_id) = {}
    THEN [segments |-> segs, candidates |-> candidates]
    ELSE MapHitOnAsset(h, Min(AssetByVideoId(as, vids, h.video_id, project_id)),
                       segs, project_id, candidates)

\* The loop over the search results.
RECURSIVE MapHits(_, _, _, _, _, _)
MapHits(hits, as, vids, segs, project_id, candidates) ==
    IF hits = << >> THEN [segments |-> segs, candidates |-> candidates]
    ELSE LET m == MapHit(Head(hits), as, vids, segs, project_id, candidates)
         IN MapHits(Tail(hits), as, vids, m.segments, project_id, m.candidates)

\* What the backend returns without candidates.
NoCandidates(segs, reason, ok) ==
    [ok |-> ok, candidates |-> {}, segments |-> segs,
     backend_used |-> "twelvelabs", fallback_reason |-> reason]

\* What the backend returns after the loop.
Mapped(m) ==
    [ok |-> TRUE, candidates |-> m.candidates, segments |-> m.segments,
     backend_used |-> "twelvelabs", fallback_reason |-> "null"]

\* TwelveLabsBackend::retrieve_candidates.  search is what the remote
\* search does: [ok, hits].
TwelveLabsRetrieve(as, segs, idx, vids, project_id, search) ==
    IF project_id \notin idx THEN NoCandidates(segs, "index_not_ready", TRUE)
    ELSE IF {a \in DOMAIN vids : a \in DOMAIN as /\ as[a].project = project_id} = {}
    THEN NoCandidates(segs, "no_assets_indexed", TRUE)
    ELSE IF ~search.ok THEN NoCandidates(segs, "null", FALSE)
    ELSE Mapped(MapHits(search.hits, as, vids, segs, project_id, {}))

\* The result of retrieve_candidates, with which backends ran on the way.
Ran(result, external, local, external_ran, local_ran) ==
    [result           |-> result,
     external_ran     |-> external_ran,
     external_failed  |-> external_ran /\ ~external.ok,
     external_empty   |-> external_ran /\ external.ok /\ external.candidates = {},
     local_ran        |-> local_ran,
     local_candidates |-> IF local_ran THEN local.candidates ELSE {}]

\* The match on RETRIEVAL_BACKEND (lines 59-113), given what each backend
\* returns when it is called.
SelectBackend(backend_str, external, local) ==
    IF backend_str = "twelvelabs" THEN Ran(external, external, local, TRUE, FALSE)
    ELSE IF backend_str = "local" THEN Ran(local, external, local, FALSE, TRUE)
    ELSE IF external.ok THEN Ran(external, external, local, TRUE, FALSE)
    ELSE Ran([local EXCEPT !.fallback_reason =
                  IF local.ok THEN "TwelveLabs search failed" ELSE "null"],
             external, local, TRUE, TRUE)

\* retrieval::retrieve_candidates for a value of RETRIEVAL_BACKEND.
retrieve_candidates(backend_str, as, segs, idx, vids, fus, project_id, search, embed_ok) ==
    SelectBackend(backend_str,
                  TwelveLabsRetrieve(as, segs, idx, vids, project_id, search),
                  LocalRetrieve(as, segs, fus, project_id, embed_ok))

(***************************************************************************)
(* SpecRetrieval: a store with analysed assets; files are imported (again, *)
(* possibly as reference footage), assets are indexed with the search      *)
(* service, and candidates are retrieved.                                  *)
(***************************************************************************)
RetrievalFrame ==
    UNCHANGED <<inflight, conn, imports, ensureLog, dirty, pollLog, procVars, timelineVars,
                media, build, lastBuild, orchVars, storeVars, runVars>>

\* The store after the pipeline has run on one or two imported files: each
\* has one segment of segment_duration_ticks with its text embedding, and
\* its fusion embedding when the vision embedding could be computed.
InitRetrieval ==
    /\ JobsInit0 /\ ProcInit0 /\ TimelineInit0
    /\ conn = "free" /\ imports = << >> /\ ensureLog = << >>
    /\ dirty = FALSE /\ pollLog = NoPoll
    /\ media = << >> /\ build = NoBuild /\ lastBuild = NoLastBuild
    /\ goals = << >> /\ proposals = << >> /\ applies = << >> /\ messages = << >>
    /\ reqs = << >> /\ nreq = 0 /\ lastResp = NoResp /\ decision = NoDecision
    /\ StoreInit0 /\ RunInit0
    /\ \E n \in 1..2 :
         \E owner \in [1..n -> RetrievalProjects], refs \in [1..n -> BOOLEAN] :
            /\ owner[1] = 1
            /\ assets = [i \in 1..n |->
                            [project |-> owner[i],
                             path |-> IF i = 1 THEN "a.mp4" ELSE "b.mp4",
                             is_reference |-> refs[i], stamps |-> Stamps]]
            /\ segments = [i \in 1..n |->
                              create_segment(<< >>, owner[i], i, 0, segment_duration_ticks)[1]]
            /\ embeds = 1..n
            /\ fusion \in SUBSET (1..n)
    /\ tl_index = {} /\ tl_videos = << >> /\ lastRetrieval = NoRetrieval

\* One file is imported, as raw or as reference footage: the request, its
\* task and process_single_video.  A path the project already has keeps
\* its asset row, with is_reference overwritten.
R_Import(project, path, is_reference) ==
    /\ Cardinality({j \in DOMAIN jobs : jobs[j].type = "ImportRaw"}) < MaxRetrievalImports
    /\ LET c == create_job(jobs, "ImportRaw", Payload(NoAsset, NoAsset, FALSE, project), NoKey)
           r == update_job_status(c.jobs, c.id, "Running", 0)
           v == process_single_video(r, assets, c.id, project, path, is_reference)
       IN /\ jobs' = update_job_status(v.jobs, c.id, "Completed", 100)
          /\ assets' = v.assets
    /\ UNCHANGED <<segments, embeds, retrievalVars>>
    /\ RetrievalFrame

\* The index job of a raw, embedded asset is enqueued and
\* process_index_asset_with_twelvelabs runs on it: the project gets its
\* index, and the asset its video id when the upload task becomes ready.
R_Index(a, ready) ==
    /\ Cardinality({j \in DOMAIN jobs : jobs[j].type = "IndexAssetWithTwelveLabs"}) < MaxIndexJobs
    /\ a \in DOMAIN assets /\ a \notin DOMAIN tl_videos
    /\ ~assets[a].is_reference
    /\ "embeddings_ready_at" \in assets[a].stamps
    /\ LET c == create_job(jobs, "IndexAssetWithTwelveLabs",
                           Payload(a, NoAsset, FALSE, assets[a].project),
                           DedupeKey("IndexAssetWithTwelveLabs", a))
       IN /\ c.inserted
          /\ jobs' = update_job_status(c.jobs, c.id,
                                       IF ready THEN "Completed" ELSE "Failed",
                                       IF ready THEN 100 ELSE NoProgress)
    /\ tl_index' = tl_index \cup {assets[a].project}
    /\ tl_videos' = IF ready THEN tl_videos @@ (a :> VideoId(a)) ELSE tl_videos
    /\ UNCHANGED <<assets, segments, embeds, fusion, lastRetrieval>>
    /\ RetrievalFrame

\* What is kept of a call: the candidates are recorded with the owner of
\* their segment as the store has it when the call returns.
RetrievalRecord(r, as, project_id, backend_str) ==
    [called           |-> TRUE,
     project_id       |-> project_id,
     setting          |-> backend_str,
     external_ran     |-> r.external_ran,
     external_failed  |-> r.external_failed,
     external_empty   |-> r.external_empty,
     local_ran        |-> r.local_ran,
     local_candidates |-> r.local_candidates,
     ok               |-> r.result.ok,
     candidates       |-> {[segment_id   |-> s,
                            project_id   |-> as[r.result.segments[s].media_asset_id].project,
                            is_reference |-> as[r.result.segments[s].media_asset_id].is_reference]
                           : s \in r.result.candidates},
     backend_used     |-> r.result.backend_used,
     fallback_reason  |-> r.result.fallback_reason]

\* One call of retrieve_candidates.
R_Retrieve(project_id, backend_str, search, embed_ok) ==
    /\ Len(segments) < MaxRetrievalSegments
    /\ \E r \in {retrieve_candidates(backend_str, assets, segments, tl_index, tl_videos,
                                     fusion, project_id, search, embed_ok)} :
          /\ segments' = r.result.segments
          /\ lastRetrieval' = RetrievalRecord(r, assets, project_id, backend_str)
    /\ UNCHANGED <<jobs, assets, embeds, tl_index, tl_videos, fusion>>
    /\ RetrievalFrame

\* What the remote search may answer: an error, or up to MaxHits hits on
\* videos of any project, or on a video the store does not know.
SearchHits ==
    {Hit(v, r) : v \in {VideoId(a) : a \in DOMAIN assets} \cup {UnknownVideo}, r \in HitRanges}
SearchResults ==
    {[ok |-> FALSE, hits |-> << >>]}
        \cup {[ok |-> TRUE, hits |-> h] :
                 h \in UNION {[1..n -> SearchHits] : n \in 0..MaxHits}}

NextRetrieval ==
    \/ \E project \in Projects, path \in Paths, is_reference \in BOOLEAN :
          R_Import(project, path, is_reference)
    \/ \E a \in DOMAIN assets, ready \in BOOLEAN : R_Index(a, ready)
    \/ \E project_id \in RetrievalProjects, backend_str \in RetrievalBackends,
          search \in SearchResults, embed_ok \in BOOLEAN :
          R_Retrieve(project_id, backend_str, search, embed_ok)

SpecRetrieval == InitRetrieval /\ [][NextRetrieval]_vars

\* C16: under twelvelabs_then_local, whenever the external backend fails or
\* returns no candidate, the local backend runs, and when it succeeds its
\* candidates are what the call returns, with a fallback_reason in debug.
C16_FallbackOnFailureOrEmpty ==
    (/\ lastRetrieval.setting = "twelvelabs_then_local"
     /\ lastRetrieval.external_failed \/ lastRetrieval.external_empty)
    => /\ lastRetrieval.local_ran
       /\ lastRetrieval.ok =>
             /\ lastRetrieval.backend_used = "local_embeddings"
             /\ {c.segment_id : c \in lastRetrieval.candidates} = lastRetrieval.local_candidates
             /\ lastRetrieval.fallback_reason # "null"

\* C17: every candidate a retrieval for project p returns is a segment of an
\* asset that is not reference footage and belongs to p.
C17_CandidatesRawAndOfProject ==
    lastRetrieval.ok =>
        \A c \in lastRetrieval.candidates :
            ~c.is_reference /\ c.project_id = lastRetrieval.project_id


(***************************************************************************)
(* SpecEngine: Timeline::apply_operation called on one timeline, operation *)
(* after operation, with the arguments a request may carry.  The engine    *)
(* checks neither the sign of a duration nor the order of a trim's bounds. *)
(***************************************************************************)
MaxEngineClips == 2
MaxEngineOps == 4
MaxEngineTick == 2

EngineClipIds == 1..MaxEngineClips
EngineAssets == {1, 2}
EngineTicks == 0..MaxEngineTick
EngineTrackIds == {0, 1, 2}

EngineFrame == UNCHANGED <<jobVars, daemonVars, procVars, extVars, tpc, persisted, batches>>

InitEngine == JobsInit0 /\ DaemonInit0 /\ ProcInit0 /\ TimelineInit0 /\ ExtInit0

\* What a viewer sees of a track: (asset, timeline start, duration) per clip.
Layout(clips) ==
    [k \in DOMAIN clips |->
        <<clips[k].asset_id, clips[k].timeline_start_ticks, Duration(clips[k])>>]

\* M2 and M3: the first clip starts at 0, every next one where the one before ends.
Contiguous(clips) == M2(clips) /\ M3(clips)

NoDeleted == [on_primary |-> FALSE, contiguous |-> FALSE, asset_id |-> 0,
              timeline_start_ticks |-> 0, duration_ticks |-> 0]

\* The clip with an id, wherever it is.
ClipById(t, clip_id) ==
    t[TrackOfClip(t, clip_id)].clips[ClipIndex(t[TrackOfClip(t, clip_id)].clips, clip_id)]

\* The id Uuid::new_v4 gives the next clip.
NewClipId(t) == Min(EngineClipIds \ AllClipIds(t))

\* One apply_operation call: the timeline is as the call leaves it, and
\* lastOp keeps what the call was given and what was there before.
Called(kind, r, track_id, clip_id, before, deleted) ==
    /\ nops < MaxEngineOps
    /\ tl' = r.tl
    /\ nops' = nops + 1
    /\ lastOp' = [kind |-> kind, ok |-> r.ok, pre |-> Magnetic(tl),
                  track_id |-> track_id, clip_id |-> clip_id, before |-> before,
                  deleted |-> deleted]
    /\ EngineFrame

E_InsertClip(a, p, tr, d) ==
    /\ Cardinality(AllClipIds(tl)) < MaxEngineClips
    /\ Called("InsertClip", InsertClip(tl, a, p, tr, d, NewClipId(tl)),
              tr, NewClipId(tl), << >>, NoDeleted)

E_TrimClip(c, i, o) ==
    Called("TrimClip", TrimClip(tl, c, i, o), 0, c, << >>, NoDeleted)

E_SplitClip(c, p) ==
    /\ Cardinality(AllClipIds(tl)) < MaxEngineClips
    /\ Called("SplitClip", SplitClip(tl, c, p, NewClipId(tl)),
              0, c, << >>, NoDeleted)

E_DeleteClip(c) ==
    /\ c \in AllClipIds(tl)
    /\ Called("DeleteClip", DeleteClip(tl, c), 0, c, Layout(PrimaryClips(tl)),
              [on_primary           |-> tl[TrackOfClip(tl, c)].id = 1,
               contiguous           |-> Contiguous(PrimaryClips(tl)),
               asset_id             |-> ClipById(tl, c).asset_id,
               timeline_start_ticks |-> ClipById(tl, c).timeline_start_ticks,
               duration_ticks       |-> Duration(ClipById(tl, c))])

\* RippleInsertClip right after a DeleteClip, with the asset, the start and
\* the duration of the clip that was deleted.
E_RippleInsertDeleted ==
    /\ lastOp.kind = "DeleteClip" /\ lastOp.ok
    /\ Called("RippleInsertClip",
              RippleInsertClip(tl, lastOp.deleted.asset_id,
                               lastOp.deleted.timeline_start_ticks,
                               lastOp.deleted.duration_ticks, NewClipId(tl)),
              1, NewClipId(tl), lastOp.before, lastOp.deleted)

E_ConsolidateTimeline ==
    Called("ConsolidateTimeline", ConsolidateTimeline(tl), 0, 0, << >>, NoDeleted)

NextEngine ==
    \/ \E a \in EngineAssets, p \in EngineTicks, tr \in EngineTrackIds, d \in EngineTicks :
          E_InsertClip(a, p, tr, d)
    \/ \E c \in EngineClipIds, i \in EngineTicks, o \in EngineTicks : E_TrimClip(c, i, o)
    \/ \E c \in EngineClipIds, p \in EngineTicks : E_SplitClip(c, p)
    \/ \E c \in EngineClipIds : E_DeleteClip(c)
    \/ E_RippleInsertDeleted
    \/ E_ConsolidateTimeline

SpecEngine == InitEngine /\ [][NextEngine]_vars


\* C18: on a contiguous primary track, DeleteClip of a clip and then
\* RippleInsertClip with the clip's asset, start and duration leave the
\* primary track with the (asset, start, duration) sequence it had before.
C18_RippleInsertUndoesDelete ==
    (/\ lastOp.kind = "RippleInsertClip"
     /\ lastOp.deleted.on_primary /\ lastOp.deleted.contiguous)
    => Layout(PrimaryClips(tl)) = lastOp.before

\* C19: after InsertClip with track 1 or a non-positive track, the new clip
\* is on track 1 and the primary track starts at 0 without gap or overlap.
C19_InsertOnPrimaryKeepsContiguity ==
    (lastOp.kind = "InsertClip" /\ lastOp.track_id <= 1)
    => /\ \E k \in DOMAIN PrimaryClips(tl) :
             /\ PrimaryClips(tl)[k].id = lastOp.clip_id
             /\ PrimaryClips(tl)[k].track_id = 1
       /\ Contiguous(PrimaryClips(tl))

\* An InsertClip with track 0 put a second clip on a primary track that
\* had a gap before the call.
C19_Witness ==
    /\ lastOp.kind = "InsertClip" /\ lastOp.track_id = 0
    /\ ~lastOp.pre
    /\ Len(PrimaryClips(tl)) >= 2

\* C20: a timeline that ConsolidateTimeline has consolidated is left as it
\* is, tracks, clips and positions, by consolidating it again.
C20_ConsolidateIdempotent ==
    lastOp.kind = "ConsolidateTimeline" => consolidate_timeline(tl) = tl

(***************************************************************************)
(* db/mod.rs: the projects table and the rows that reference it.  The      *)
(* schema declares FOREIGN KEY (project_id) REFERENCES projects(id) on     *)
(* media_assets, segments and timeline_projects, and embeddings reference  *)
(* segments(id).  No declaration carries ON DELETE CASCADE and the code    *)
(* issues no PRAGMA foreign_keys: whether the declarations are enforced is *)
(* the default of the SQLite library the build links (foreign_keys).       *)
(***************************************************************************)
MaxProjects == 2
MaxStoreSegments == 2
StoreProjects == 1..MaxProjects

\* The kinds of rows that belong to a project and are in the store.  The
\* timeline row of the model is the row of the project in Projects.
RowsOfProject(as, segs, embedded, row, id) ==
    (IF \E a \in DOMAIN as : as[a].project = id THEN {"media_assets"} ELSE {})
    \cup (IF \E k \in DOMAIN segs : segs[k].project_id = id THEN {"segments"} ELSE {})
    \cup (IF \E k \in DOMAIN segs : segs[k].project_id = id /\ k \in embedded
          THEN {"embeddings"} ELSE {})
    \cup (IF id \in Projects /\ row.exists THEN {"timeline_projects"} ELSE {})

\* The rows whose project_id column references projects(id).
ReferencesProject(as, segs, row, id) ==
    RowsOfProject(as, segs, {}, row, id) # {}

\* Database::delete_project: DELETE FROM projects WHERE id = ?1, and nothing
\* else.  With the foreign keys enforced the statement is an error while a
\* row references the project; without, it deletes the projects row and
\* leaves every other table as it is.
delete_project(ps, as, segs, row, enforced, id) ==
    IF enforced /\ ReferencesProject(as, segs, row, id)
    THEN [ok |-> FALSE, projects |-> ps]
    ELSE [ok |-> TRUE, projects |-> ps \ {id}]

(***************************************************************************)
(* SpecStore: two projects were created; files are imported into them,     *)
(* segments and their embeddings are written, the timeline of a project is *)
(* stored, and projects are deleted.  An INSERT that names a project       *)
(* without row is an error when the foreign keys are enforced.             *)
(***************************************************************************)
StoreFrame ==
    UNCHANGED <<jobVars, inflight, conn, imports, ensureLog, dirty, pollLog, procVars,
                tl, tpc, nops, batches, lastOp, media, build, lastBuild,
                goals, proposals, applies, messages, reqs, nreq, lastResp, decision,
                retrievalVars, runVars>>

InitStore ==
    /\ JobsInit0 /\ DaemonInit0 /\ ProcInit0 /\ TimelineInit0
    /\ SegmentInit0 /\ OrchInit0 /\ RetrievalInit0
    /\ projects = StoreProjects
    /\ foreign_keys \in BOOLEAN
    /\ lastDelete = NoDelete
    /\ served = NoServed /\ sse = NoStream /\ ready_jobs = << >> /\ handlers = << >>
    /\ RunInit0

S_Import(project, path) ==
    /\ foreign_keys => project \in projects
    /\ assets' = create_media_asset_with_reference_flag(assets, project, path, FALSE).assets
    /\ UNCHANGED <<segments, embeds, persisted, storeVars, runVars>>
    /\ StoreFrame

S_CreateSegment(a) ==
    /\ a \in DOMAIN assets
    /\ Len(segments) < MaxStoreSegments
    /\ foreign_keys => assets[a].project \in projects
    /\ segments' = create_segment(segments, assets[a].project, a, 0, 1)
    /\ UNCHANGED <<assets, embeds, persisted, storeVars, runVars>>
    /\ StoreFrame

S_Embed(k) ==
    /\ k \in DOMAIN segments
    /\ k \notin embeds
    /\ embeds' = embeds \cup {k}
    /\ UNCHANGED <<assets, segments, persisted, storeVars, runVars>>
    /\ StoreFrame

S_StoreTimeline(project) ==
    /\ foreign_keys => project \in projects
    /\ ~persisted.exists
    /\ persisted' = store_timeline(EmptyTimeline)
    /\ UNCHANGED <<assets, segments, embeds, storeVars, runVars>>
    /\ StoreFrame

S_DeleteProject(id) ==
    /\ \E r \in {delete_project(projects, assets, segments, persisted, foreign_keys, id)} :
          /\ projects' = r.projects
          /\ lastDelete' = [called |-> TRUE, id |-> id, ok |-> r.ok]
    /\ UNCHANGED <<assets, segments, embeds, persisted, foreign_keys, served, sse, ready_jobs,
                   handlers, runVars>>
    /\ StoreFrame

NextStore ==
    \/ \E project \in StoreProjects, path \in Paths : S_Import(project, path)
    \/ \E a \in 1..(MaxProjects * 2) : S_CreateSegment(a)
    \/ \E k \in 1..MaxStoreSegments : S_Embed(k)
    \/ \E project \in Projects : S_StoreTimeline(project)
    \/ \E id \in StoreProjects : S_DeleteProject(id)

SpecStore == InitStore /\ [][NextStore]_vars

\* C21: when delete_project(p) returns Ok, the store holds no media asset,
\* segment, embedding or timeline row of project p.
C21_DeleteProjectCascades ==
    [][\A id \in StoreProjects :
          (S_DeleteProject(id) /\ lastDelete'.ok)
          => RowsOfProject(assets', segments', embeds', persisted', id) = {}]_vars

(***************************************************************************)
(* api/media.rs: the Range header of the proxy endpoint.  A header value   *)
(* is a sequence of characters.                                            *)
(***************************************************************************)
MaxFileSize == 10
MaxServed == 1

Digits == <<"0", "1", "2", "3", "4", "5", "6", "7", "8", "9">>
IsDigit(c) == \E d \in DOMAIN Digits : Digits[d] = c
DigitValue(c) == (CHOOSE d \in DOMAIN Digits : Digits[d] = c) - 1

\* u64's Display: the decimal digits of n.
RECURSIVE Decimal(_)
Decimal(n) ==
    IF n < 10 THEN <<Digits[n + 1]>>
    ELSE Append(Decimal(n \div 10), Digits[(n % 10) + 1])

\* The value of a sequence of digits.
RECURSIVE DigitsValue(_)
DigitsValue(ds) ==
    IF ds = << >> THEN 0
    ELSE DigitsValue(SubSeq(ds, 1, Len(ds) - 1)) * 10 + DigitValue(ds[Len(ds)])

\* str::parse::<u64>: an optional '+' and then one or more digits, nothing
\* else (the values of the model are far below 2^64).
UnsignedBody(str) == IF str # << >> /\ str[1] = "+" THEN Tail(str) ELSE str
parse_u64(str) ==
    IF UnsignedBody(str) = << >> \/ \E i \in DOMAIN UnsignedBody(str) : ~IsDigit(UnsignedBody(str)[i])
    THEN [ok |-> FALSE, value |-> 0]
    ELSE [ok |-> TRUE, value |-> DigitsValue(UnsignedBody(str))]

\* str::trim
RECURSIVE trim(_)
trim(str) ==
    IF str = << >> THEN str
    ELSE IF str[1] = " " THEN trim(Tail(str))
    ELSE IF str[Len(str)] = " " THEN trim(SubSeq(str, 1, Len(str) - 1))
    ELSE str

\* str::starts_with
starts_with(str, prefix) ==
    Len(str) >= Len(prefix) /\ SubSeq(str, 1, Len(prefix)) = prefix

\* str::split(sep).collect(): the pieces between the separators.
FirstIndexOf(str, sep) == Min({i \in DOMAIN str : str[i] = sep})
RECURSIVE split(_, _)
split(str, sep) ==
    IF ~\E i \in DOMAIN str : str[i] = sep THEN <<str>>
    ELSE <<SubSeq(str, 1, FirstIndexOf(str, sep) - 1)>>
         \o split(SubSeq(str, FirstIndexOf(str, sep) + 1, Len(str)), sep)

BytesUnit == <<"b", "y", "t", "e", "s", "=">>
NoRange == [some |-> FALSE, start |-> 0, end |-> 0]
NoBound == [ok |-> FALSE, value |-> 0]

\* parse_range, media.rs:381-396: the start of the range.
RangeStart(start_str, end_str, file_size) ==
    IF start_str = << >>
    THEN IF file_size = 0 THEN NoBound
         ELSE IF parse_u64(end_str).ok
              THEN [ok |-> TRUE,
                    value |-> IF parse_u64(end_str).value > file_size THEN 0
                              ELSE file_size - parse_u64(end_str).value]
              ELSE NoBound
    ELSE parse_u64(start_str)

\* parse_range, media.rs:398-407: the end of the range.
RangeEnd(end_str, file_size) ==
    IF end_str = << >>
    THEN IF file_size > 0 THEN [ok |-> TRUE, value |-> file_size - 1] ELSE NoBound
    ELSE parse_u64(end_str)

\* parse_range, media.rs:409-414: the validation and the result.
CheckedRange(start, end, file_size) ==
    IF ~start.ok \/ ~end.ok THEN NoRange
    ELSE IF file_size = 0 \/ start.value > end.value \/ end.value >= file_size THEN NoRange
    ELSE [some |-> TRUE, start |-> start.value, end |-> end.value]

RangeOfParts(parts, file_size) ==
    IF Len(parts) # 2 THEN NoRange
    ELSE IF trim(parts[1]) = << >> /\ trim(parts[2]) = << >> THEN NoRange
    ELSE CheckedRange(RangeStart(trim(parts[1]), trim(parts[2]), file_size),
                      RangeEnd(trim(parts[2]), file_size), file_size)

parse_range(range_str, file_size) ==
    IF ~starts_with(range_str, BytesUnit) THEN NoRange
    ELSE RangeOfParts(split(SubSeq(range_str, 7, Len(range_str)), "-"), file_size)

\* serve_video_file, media.rs:211-237: the bytes and the status of the
\* response for a file of file_size bytes.
Response(start, end, status) ==
    [start |-> start, end |-> end, status |-> status, content_length |-> end - start + 1]

RangeResponse(range, file_size) ==
    IF range.some THEN Response(range.start, range.end, 206)
    ELSE Response(0, file_size - 1, 200)

serve_video_file(has_range, range_str, file_size) ==
    IF file_size = 0 THEN [start |-> 0, end |-> 0, status |-> 200, content_length |-> 0]
    ELSE IF has_range THEN RangeResponse(parse_range(range_str, file_size), file_size)
    ELSE Response(0, file_size - 1, 200)

(***************************************************************************)
(* SpecRange: requests to the proxy endpoint with and without a Range      *)
(* header, over files of every size up to MaxFileSize; the handler keeps   *)
(* nothing from one request to the next.                                   *)
(***************************************************************************)
RangeNumbers == {0, 1, 2, 3, 5, 9, 10, 12}
RangeParts ==
    {<< >>, <<"x">>, <<" ", "3">>, <<"+", "2">>} \cup {Decimal(n) : n \in RangeNumbers}
RangeUnits == {BytesUnit, <<"i", "t", "e", "m", "s", "=">>}
RangeHeaders ==
    {u \o a \o <<"-">> \o b : u \in RangeUnits, a \in RangeParts, b \in RangeParts}
    \cup {BytesUnit \o <<"1", "-", "2", "-", "3">>, BytesUnit \o <<"7">>}

\* bytes=-N
SuffixHeader(n) == BytesUnit \o <<"-">> \o Decimal(n)

RangeFrame ==
    UNCHANGED <<jobVars, daemonVars, procVars, timelineVars, segmentVars, orchVars,
                retrievalVars, projects, foreign_keys, lastDelete, sse, ready_jobs, handlers, runVars>>

InitRange == JobsInit0 /\ DaemonInit0 /\ ProcInit0 /\ TimelineInit0 /\ ExtInit0

ServedRecord(has_range, range_str, file_size, r) ==
    [called |-> TRUE, n |-> served.n + 1, has_range |-> has_range, range_str |-> range_str,
     file_size |-> file_size, start |-> r.start, end |-> r.end, status |-> r.status,
     content_length |-> r.content_length]

Serve(has_range, range_str, file_size) ==
    /\ served.n < MaxServed
    /\ \E r \in {serve_video_file(has_range, range_str, file_size)} :
          served' = ServedRecord(has_range, range_str, file_size, r)
    /\ RangeFrame

NextRange ==
    \/ \E range_str \in RangeHeaders, file_size \in 0..MaxFileSize :
          Serve(TRUE, range_str, file_size)
    \/ \E file_size \in 0..MaxFileSize : Serve(FALSE, << >>, file_size)

SpecRange == InitRange /\ [][NextRange]_vars

\* C22: a request with the header bytes=-N, N >= 1, for a file of size >= 1
\* is answered 206 with the bytes max(0, size - N) .. size - 1.
C22_SuffixRange ==
    \A n \in RangeNumbers :
        ( /\ served.called /\ served.has_range
          /\ n >= 1 /\ served.range_str = SuffixHeader(n)
          /\ served.file_size >= 1 )
        => /\ served.start = (IF n > served.file_size THEN 0 ELSE served.file_size - n)
           /\ served.end = served.file_size - 1
           /\ served.status = 206

(***************************************************************************)
(* jobs/mod.rs: JobEvent and the broadcast channel; api/orchestrator.rs:   *)
(* the event stream of a project.                                          *)
(***************************************************************************)
MaxStreamEvents == 3
MaxStreamImports == 1

\* A JobEvent; a field the variant does not have is NoAsset, NoProject, 0.
JobEvent(type, job_id, job_type, asset_id, project_id) ==
    [type |-> type, job_id |-> job_id, job_type |-> job_type,
     asset_id |-> asset_id, project_id |-> project_id]

\* update_job_status, lines 302-321: the events it sends for a job that has
\* a row.  asset_id is the payload's "asset_id" (line 277), or None.
StatusEvents(js, id, status) ==
    IF id \notin DOMAIN js THEN << >>
    ELSE IF status = "Completed"
    THEN <<JobEvent("JobCompleted", id, js[id].type, js[id].payload.asset_id, NoProject)>>
    ELSE IF status = "Failed"
    THEN <<JobEvent("JobFailed", id, js[id].type, js[id].payload.asset_id, NoProject)>>
    ELSE << >>

\* JobManager::emit_analysis_complete
emit_analysis_complete(asset_id, project_id) ==
    <<JobEvent("AnalysisComplete", 0, "", asset_id, project_id)>>

\* broadcast::Sender::send as the stream's receiver sees it: an event sent
\* before the stream subscribed is not received.
Broadcast(stream, job_events) ==
    [stream EXCEPT !.pending = IF stream.open THEN @ \o job_events ELSE @,
                   !.sent = @ + Len(job_events)]

\* events, lines 1379-1385: the filter of the stream.
should_include(event, project_id) ==
    IF event.type = "AnalysisComplete" THEN event.project_id = project_id
    ELSE TRUE

\* events, lines 1375-1399: the stream receives its next event and emits it
\* as data, or a "filtered" comment in its place.
StreamNext(stream) ==
    [stream EXCEPT !.pending = Tail(@),
                   !.delivered = IF should_include(Head(stream.pending), stream.project_id)
                                 THEN Append(@, Head(stream.pending))
                                 ELSE @]

\* The project a job belongs to: that of its asset, or the project_id of
\* its payload.
JobProject(js, as, id) ==
    IF extract_asset_id(js[id].payload) \in DOMAIN as
    THEN as[extract_asset_id(js[id].payload)].project
    ELSE js[id].payload.project_id

(***************************************************************************)
(* SpecEvents: a file was imported into each of two projects and its       *)
(* analysis has come to the EmbedSegments job.  A client opens the event   *)
(* stream of a project; files are imported, jobs are finished by their     *)
(* tasks, and the stream hands on what it receives.                        *)
(***************************************************************************)
EventsFrame ==
    UNCHANGED <<inflight, conn, imports, ensureLog, dirty, pollLog, procVars, timelineVars,
                segmentVars, orchVars, retrievalVars, projects, foreign_keys, lastDelete,
                served, ready_jobs, handlers, runVars>>

TwoImports ==
    ImportedOneFile(ImportedOneFile(<< >>, << >>, 1, "a.mp4").jobs,
                    ImportedOneFile(<< >>, << >>, 1, "a.mp4").assets, 2, "a.mp4")

InitEvents ==
    /\ jobs = create_job(
                  create_job(TwoImports.jobs, "EmbedSegments",
                             Payload(1, NoAsset, FALSE, NoProject), NoKey).jobs,
                  "EmbedSegments", Payload(2, NoAsset, FALSE, NoProject), NoKey).jobs
    /\ assets = TwoImports.assets
    /\ inflight = {} /\ conn = "free" /\ imports = << >> /\ ensureLog = << >>
    /\ dirty = FALSE /\ pollLog = NoPoll
    /\ ProcInit0 /\ TimelineInit0 /\ SegmentInit0 /\ OrchInit0 /\ RetrievalInit0
    /\ projects = {} /\ foreign_keys = FALSE /\ lastDelete = NoDelete
    /\ served = NoServed /\ sse = NoStream /\ ready_jobs = << >> /\ handlers = << >>
    /\ RunInit0

\* GET /projects/:id/orchestrator/events
EV_Open(project_id) ==
    /\ ~sse.open
    /\ sse' = [sse EXCEPT !.open = TRUE, !.project_id = project_id]
    /\ UNCHANGED <<jobs, assets>>
    /\ EventsFrame

\* POST /projects/:id/media/import and its spawned task, to the end.
EV_Import(project, path) ==
    /\ Cardinality({j \in DOMAIN jobs : jobs[j].type = "ImportRaw"}) < 2 + MaxStreamImports
    /\ sse.sent < MaxStreamEvents
    /\ jobs' = ImportedOneFile(jobs, assets, project, path).jobs
    /\ assets' = ImportedOneFile(jobs, assets, project, path).assets
    /\ sse' = Broadcast(sse, StatusEvents(jobs', Len(jobs) + 1, "Completed"))
    /\ EventsFrame

\* The last status update of the task that runs a job.
EV_Finish(j, status) ==
    /\ j \in DOMAIN jobs
    /\ jobs[j].status = "Pending"
    /\ jobs[j].type # "EmbedSegments"
    /\ sse.sent < MaxStreamEvents
    /\ jobs' = update_job_status(jobs, j, status, NoProgress)
    /\ sse' = Broadcast(sse, StatusEvents(jobs, j, status))
    /\ UNCHANGED assets
    /\ EventsFrame

\* embeddings.rs:359-376, the end of process_embed_segments.
EV_Embedded(j) ==
    /\ j \in DOMAIN jobs
    /\ jobs[j].status = "Pending"
    /\ jobs[j].type = "EmbedSegments"
    /\ sse.sent + 1 < MaxStreamEvents
    /\ assets' = update_asset_analysis_state(assets, jobs[j].payload.asset_id,
                                             "embeddings_ready_at")
    /\ jobs' = update_job_status(jobs, j, "Completed", 100)
    /\ sse' = Broadcast(sse,
                 emit_analysis_complete(jobs[j].payload.asset_id,
                                        assets[jobs[j].payload.asset_id].project)
                 \o StatusEvents(jobs, j, "Completed"))
    /\ EventsFrame

EV_Next ==
    /\ sse.open
    /\ sse.pending # << >>
    /\ sse' = StreamNext(sse)
    /\ UNCHANGED <<jobs, assets>>
    /\ EventsFrame

NextEvents ==
    \/ \E project_id \in RetrievalProjects : EV_Open(project_id)
    \/ \E project \in RetrievalProjects : EV_Import(project, "b.mp4")
    \/ \E j \in DOMAIN jobs, status \in {"Completed", "Failed"} : EV_Finish(j, status)
    \/ \E j \in DOMAIN jobs : EV_Embedded(j)
    \/ EV_Next

SpecEvents == InitEvents /\ [][NextEvents]_vars

\* C23: every JobCompleted or JobFailed event the stream of project p has
\* delivered is the event of a job that belongs to project p.
C23_StreamOnlyOwnProject ==
    \A k \in DOMAIN sse.delivered :
        sse.delivered[k].type \in {"JobCompleted", "JobFailed"}
        => JobProject(jobs, assets, sse.delivered[k].job_id) = sse.project_id

(***************************************************************************)
(* orchestrator/state.rs, ensure.rs: readiness and the jobs ensure_ready   *)
(* enqueues for the raw assets whose states it is given.                   *)
(***************************************************************************)
\* get_asset_readiness, state.rs:45-108; a missing row reads as false.
get_asset_readiness(as, indexed, asset_id) ==
    IF asset_id \in indexed THEN "IndexedExternal"
    ELSE IF asset_id \notin DOMAIN as THEN "Imported"
    ELSE IF "embeddings_ready_at" \in as[asset_id].stamps THEN "Embedded"
    ELSE IF "metadata_ready_at" \in as[asset_id].stamps THEN "MetadataReady"
    ELSE IF {"transcript_ready_at", "vision_ready_at"} \subseteq as[asset_id].stamps
    THEN "Enriched"
    ELSE IF "segments_built_at" \in as[asset_id].stamps THEN "Segmented"
    ELSE "Imported"

\* compute_missing_steps without the guards on the target: every step of the
\* pipeline behind the current level.
every_later_step(current, target) ==
    CASE current = "Imported" ->
            <<"BuildSegments", "TranscribeAsset", "AnalyzeVisionAsset",
              "ComputeSegmentMetadata", "EmbedSegments", "IndexAssetWithTwelveLabs">>
      [] current = "Segmented" ->
            <<"TranscribeAsset", "AnalyzeVisionAsset", "ComputeSegmentMetadata",
              "EmbedSegments", "IndexAssetWithTwelveLabs">>
      [] current = "Enriched" ->
            <<"ComputeSegmentMetadata", "EmbedSegments", "IndexAssetWithTwelveLabs">>
      [] current = "MetadataReady" -> <<"EmbedSegments", "IndexAssetWithTwelveLabs">>
      [] current = "Embedded" -> <<"IndexAssetWithTwelveLabs">>
      [] OTHER -> << >>

\* compute_missing_steps, ensure.rs:50-88
RECURSIVE compute_missing_steps(_, _)
compute_missing_steps(current, target) ==
    CASE current = "Imported" ->
            <<"BuildSegments">> \o compute_missing_steps("Segmented", target)
      [] current = "Segmented" /\ target # "Segmented" ->
            <<"TranscribeAsset", "AnalyzeVisionAsset">>
            \o compute_missing_steps("Enriched", target)
      [] current = "Enriched" /\ target \notin {"Enriched", "Segmented"} ->
            <<"ComputeSegmentMetadata">> \o compute_missing_steps("MetadataReady", target)
      [] current = "MetadataReady"
         /\ target \notin {"MetadataReady", "Enriched", "Segmented"} ->
            <<"EmbedSegments">> \o compute_missing_steps("Embedded", target)
      [] current = "Embedded"
         /\ target \notin {"Embedded", "MetadataReady", "Enriched", "Segmented"} ->
            <<"IndexAssetWithTwelveLabs">>
      [] OTHER -> << >>

\* ensure_ready, ensure.rs:125-161: the jobs enqueued for one asset.  A step
\* with an active job of its dedupe key is skipped; the payload of a new job
\* is {asset_id, project_id}.
EnqueueStep(r, step, asset_id, project_id) ==
    IF ActiveWithKey(r.jobs, DedupeKey(step, asset_id)) # {} THEN r
    ELSE [jobs |-> create_job(r.jobs, step, Payload(asset_id, NoAsset, FALSE, project_id),
                              DedupeKey(step, asset_id)).jobs,
          enqueued |-> r.enqueued \cup {Len(r.jobs) + 1}]

RECURSIVE EnqueueSteps(_, _, _, _)
EnqueueSteps(r, steps, asset_id, project_id) ==
    IF steps = << >> THEN r
    ELSE EnqueueSteps(EnqueueStep(r, Head(steps), asset_id, project_id),
                      Tail(steps), asset_id, project_id)

\* ensure_ready, ensure.rs:105-173: the loop over the asset states.
RECURSIVE EnsureAssets(_, _, _, _, _, _)
EnsureAssets(r, as, indexed, asset_ids, project_id, target) ==
    IF asset_ids = << >> THEN r
    ELSE EnsureAssets(
            IF get_asset_readiness(as, indexed, Head(asset_ids)) = target THEN r
            ELSE EnqueueSteps(r, compute_missing_steps(
                                     get_asset_readiness(as, indexed, Head(asset_ids)), target),
                              Head(asset_ids), project_id),
            as, indexed, Tail(asset_ids), project_id, target)

\* The ids of a set of rows, ascending.
Ascending(ids) == SelectSeq([i \in 1..Max(ids \cup {0}) |-> i], LAMBDA i : i \in ids)

\* The position of a readiness level in the order of AssetReadiness.
Level(readiness) ==
    CASE readiness = "Imported" -> 0
      [] readiness = "Segmented" -> 1
      [] readiness = "Enriched" -> 2
      [] readiness = "MetadataReady" -> 3
      [] readiness = "Embedded" -> 4
      [] readiness = "IndexedExternal" -> 5

(***************************************************************************)
(* jobs/processor.rs: one round of JobProcessor::run.  The gate of         *)
(* get_ready_jobs (lines 41-63) is applied to the Pending rows in the      *)
(* order of their creation; an Err for one row is the Err of the call.     *)
(***************************************************************************)
GateRows(js, as, rows) ==
    IF \E k \in DOMAIN rows : ~RowReady(as, js[rows[k]].type, js[rows[k]].payload).ok
    THEN [ok |-> FALSE, ready_jobs |-> << >>]
    ELSE [ok |-> TRUE,
          ready_jobs |-> SelectSeq(rows,
              LAMBDA i : RowReady(as, js[i].type, js[i].payload).value)]

(***************************************************************************)
(* SpecPipeline: after the import of one video, ensure_ready's loop runs   *)
(* for a goal, and the scheduler task polls, gates and processes the jobs  *)
(* one after the other.  Every analysis succeeds.                          *)
(***************************************************************************)
MaxEnsures == 1

PipelineFrame ==
    UNCHANGED <<inflight, conn, imports, dirty, timelineVars,
                segmentVars, orchVars, retrievalVars, projects, foreign_keys, lastDelete,
                served, sse, handlers, runVars>>

\* ensure_ready from line 101 on, given the states of the project's raw assets.
PL_Ensure(project, goal) ==
    /\ Len(ensureLog) < MaxEnsures
    /\ \E r \in {EnsureAssets([jobs |-> jobs, enqueued |-> {}], assets, DOMAIN tl_videos,
                              Ascending(RawAssets(assets, project)), project, goal)} :
          /\ jobs' = r.jobs
          /\ ensureLog' = Logged(ensureLog, EnsureCall(project, goal, TRUE, r.enqueued, FALSE))
    /\ UNCHANGED <<assets, procVars, ready_jobs, pollLog>>
    /\ PipelineFrame

\* run, lines 292-299: the poll; on Err it sleeps and polls again.
PL_Poll ==
    /\ cur = Idle
    /\ ready_jobs = << >>
    /\ ready_jobs' = GateRows(jobs, assets, RowsWithStatus(jobs, "Pending")).ready_jobs
    /\ pollLog' = [polled |-> TRUE, eligible |-> Eligible(jobs, assets), ready |-> ready_jobs']
    /\ UNCHANGED <<jobs, assets, procVars, ensureLog>>
    /\ PipelineFrame

\* run, lines 302-311: process_job for the next id of the list.
PL_Process ==
    /\ cur = Idle
    /\ ready_jobs # << >>
    /\ ProcessJobStart(Head(ready_jobs))
    /\ ready_jobs' = Tail(ready_jobs)
    /\ UNCHANGED <<ensureLog, pollLog>>
    /\ PipelineFrame

NextPipeline ==
    \/ \E project \in Projects, goal \in ReadinessGoal : PL_Ensure(project, goal)
    \/ PL_Poll
    \/ PL_Process
    \/ P_Work
    \/ P_Progress
    \/ P_Stamp
    \/ P_Enqueue
    \/ P_Complete

SpecPipeline == InitDispatch /\ [][NextPipeline]_vars

\* The scheduler task is the loop of run: it polls again after every round,
\* awaits each processor, and every analysis returns.
SpecPipelineFair ==
    /\ SpecPipeline
    /\ WF_vars(PL_Poll) /\ WF_vars(PL_Process)
    /\ WF_vars(P_Work) /\ WF_vars(P_Stamp) /\ WF_vars(P_Enqueue) /\ WF_vars(P_Complete)

\* The jobs the ensure_ready calls have enqueued, and those of an asset.
Enqueued == UNION {ensureLog[k].enqueued : k \in DOMAIN ensureLog}
EnqueuedFor(a) == {j \in Enqueued : jobs[j].payload.asset_id = a}

\* The asset is at or above the goal of every call that enqueued a job for it.
AtGoals(a) ==
    \A k \in DOMAIN ensureLog :
        (\E j \in ensureLog[k].enqueued : jobs[j].payload.asset_id = a)
        => Level(get_asset_readiness(assets, DOMAIN tl_videos, a)) >= Level(ensureLog[k].goal)

\* C25: when ensure_ready has enqueued a job for an asset and every analysis
\* succeeds, the asset comes to the readiness of the goal or above with no
\* further request, no job that ensure_ready enqueued is ever Failed, and
\* none stays Pending for ever.
C25_EnsuredAssetBecomesReady ==
    /\ \A a \in AssetIds : (EnqueuedFor(a) # {}) ~> AtGoals(a)
    /\ [](\A j \in Enqueued : jobs[j].status # "Failed")
    /\ (Enqueued # {}) ~> (\A j \in Enqueued : jobs[j].status # "Pending")

\* The readiness stamps a job of the type waits for.
RequiredStamps(job_type) ==
    CASE job_type = "EnrichSegmentsFromTranscript" -> {"segments_built_at", "transcript_ready_at"}
      [] job_type = "EnrichSegmentsFromVision" -> {"segments_built_at", "vision_ready_at"}
      [] job_type = "ComputeSegmentMetadata" -> {"segments_built_at"}
      [] job_type = "EmbedSegments" -> {"metadata_ready_at"}
      [] job_type = "IndexAssetWithTwelveLabs" -> {"embeddings_ready_at"}
      [] OTHER -> {}

\* C26: a job bound to an asset is moved to Running by the scheduler only
\* when the asset has the readiness stamps its type waits for.
C26_RunningOnlyWithPrerequisites ==
    [][\A j \in DOMAIN jobs :
          ( /\ jobs[j].status # "Running" /\ jobs'[j].status = "Running"
            /\ extract_asset_id(jobs[j].payload) \in DOMAIN assets )
          => RequiredStamps(jobs[j].type)
                \subseteq assets[extract_asset_id(jobs[j].payload)].stamps]_vars

(***************************************************************************)
(* SpecDangling: the scheduler task after the import of one video, with    *)
(* the asset deleted over HTTP at some point, exports requested, and       *)
(* analyses that may fail.  The media_assets table is a sequence in the    *)
(* model: the row deleted is its last one, and no asset is imported        *)
(* afterwards.                                                             *)
(***************************************************************************)
\* Database::delete_media_asset: an error for an asset that is not in the
\* project, else a DELETE of the row of media_assets, and of no row of jobs.
delete_media_asset(as, project_id, asset_id) ==
    IF asset_id \notin DOMAIN as \/ as[asset_id].project # project_id
    THEN [ok |-> FALSE, assets |-> as]
    ELSE [ok |-> TRUE, assets |-> SubSeq(as, 1, asset_id - 1)]

PL_DeleteAsset(project_id, asset_id) ==
    /\ cur = Idle
    /\ asset_id = Len(assets)
    /\ delete_media_asset(assets, project_id, asset_id).ok
    /\ assets' = delete_media_asset(assets, project_id, asset_id).assets
    /\ UNCHANGED <<jobs, procVars, ready_jobs, ensureLog, pollLog>>
    /\ PipelineFrame

\* The Pending jobs whose payload names an asset that has no row.
Dangling(js, as) ==
    {j \in DOMAIN js : /\ js[j].status = "Pending"
                       /\ extract_asset_id(js[j].payload) # NoAsset
                       /\ extract_asset_id(js[j].payload) \notin DOMAIN as}

NextDangling ==
    \/ PL_Poll
    \/ PL_Process
    \/ P_Work
    \/ P_Stamp
    \/ P_Enqueue
    \/ P_Complete
    \/ \E project_id \in Projects, asset_id \in AssetIds : PL_DeleteAsset(project_id, asset_id)
    \/ P_Export
    \/ P_Error

SpecDangling == InitDispatch /\ [][NextDangling]_vars

\* C28: a poll made while a Pending job names an asset without row returns
\* every other Pending job whose prerequisites hold.
C28_DanglingJobDoesNotBlockPoll ==
    [][(pollLog' # pollLog /\ Dangling(jobs, assets) # {})
       => \A j \in Eligible(jobs, assets) : j \in Range(pollLog'.ready)]_vars

(***************************************************************************)
(* api/timeline.rs: apply_operations requests served in parallel.  The     *)
(* server runs on the multi-threaded runtime (main.rs:32); a handler takes *)
(* the database lock in get_timeline, releases it, works on its own copy   *)
(* of the timeline, and takes the lock again in store_timeline.            *)
(***************************************************************************)
MaxHandlers == 2
MaxConcurrentBatch == 1
Handlers == 1..MaxHandlers

\* An InsertClip operation of a request.
InsertOp(asset_id, position_ticks, track_id, duration_ticks) ==
    [asset_id |-> asset_id, position_ticks |-> position_ticks,
     track_id |-> track_id, duration_ticks |-> duration_ticks]
InsertOps ==
    {InsertOp(a, p, tr, d) : a \in EngineAssets, p \in 0..1, tr \in {1, 2}, d \in {1, 2}}
ConcurrentBatches ==
    UNION {[1..n -> InsertOps] : n \in 1..MaxConcurrentBatch}

\* The uuid of the clip that operation k of request h creates.
BatchUuid(h, k) == (h - 1) * MaxConcurrentBatch + k

\* apply_operations, lines 140-158: the loop over the operations, stopped by
\* the first Err, and consolidate_timeline after it.
RECURSIVE ApplyFrom(_, _, _, _)
ApplyFrom(r, ops, h, k) ==
    IF ~r.ok \/ k > Len(ops) THEN r
    ELSE ApplyFrom(InsertClip(r.tl, ops[k].asset_id, ops[k].position_ticks,
                              ops[k].track_id, ops[k].duration_ticks, BatchUuid(h, k)),
                   ops, h, k + 1)

ApplyBatch(timeline, ops, h) ==
    [ok |-> ApplyFrom([ok |-> TRUE, tl |-> timeline], ops, h, 1).ok,
     tl |-> consolidate_timeline(ApplyFrom([ok |-> TRUE, tl |-> timeline], ops, h, 1).tl)]

\* get_timeline and the deserialization, or Timeline::new.
LoadTimeline(row) == IF row.exists THEN row.tracks ELSE EmptyTimeline

\* A whole request on the stored row: the row it leaves.
Served(row, ops, h) ==
    IF ApplyBatch(LoadTimeline(row), ops, h).ok
    THEN store_timeline(ApplyBatch(LoadTimeline(row), ops, h).tl)
    ELSE row

(***************************************************************************)
(* SpecConcurrent: MaxHandlers requests on the project's timeline, each    *)
(* with a batch of InsertClip operations.                                  *)
(***************************************************************************)
ConcurrentFrame ==
    UNCHANGED <<jobVars, daemonVars, procVars, tl, tpc, nops, batches, lastOp,
                segmentVars, orchVars, retrievalVars, projects, foreign_keys, lastDelete,
                served, sse, ready_jobs, runVars>>

InitConcurrent == JobsInit0 /\ DaemonInit0 /\ ProcInit0 /\ TimelineInit0 /\ ExtInit0

\* The request arrives and the handler loads the timeline (lines 79-134).
H_Load(h, ops) ==
    /\ h \notin DOMAIN handlers
    /\ handlers' = handlers @@ (h :> [pc |-> "loaded", ops |-> ops,
                                      timeline |-> LoadTimeline(persisted)])
    /\ UNCHANGED persisted
    /\ ConcurrentFrame

\* The handler applies its operations to its copy and stores it (lines
\* 140-177), or answers 400 and stores nothing.
H_Store(h) ==
    /\ h \in DOMAIN handlers
    /\ handlers[h].pc = "loaded"
    /\ \E r \in {ApplyBatch(handlers[h].timeline, handlers[h].ops, h)} :
          /\ persisted' = IF r.ok THEN store_timeline(r.tl) ELSE persisted
          /\ handlers' = [handlers EXCEPT ![h].pc = IF r.ok THEN "stored" ELSE "failed"]
    /\ ConcurrentFrame

NextConcurrent ==
    \/ \E h \in Handlers, ops \in ConcurrentBatches : H_Load(h, ops)
    \/ \E h \in Handlers : H_Store(h)

SpecConcurrent == InitConcurrent /\ [][NextConcurrent]_vars

\* C29: when two apply_operations requests on the project have both been
\* answered, the stored timeline is the one that serving them one after the
\* other, in one of the two orders, leaves.
C29_ConcurrentBatchesSerialised ==
    \A g, h \in Handlers :
        ( /\ g # h
          /\ g \in DOMAIN handlers /\ h \in DOMAIN handlers
          /\ handlers[g].pc # "loaded" /\ handlers[h].pc # "loaded" )
        => \/ persisted = Served(Served(NoTimeline, handlers[g].ops, g), handlers[h].ops, h)
           \/ persisted = Served(Served(NoTimeline, handlers[h].ops, h), handlers[g].ops, g)

(***************************************************************************)
(* SpecLanes: overlay lanes.  InsertClip on a track above the primary      *)
(* pushes the track at the end of the track list when it is missing        *)
(* (ops.rs:262-280), so the list is in the order the tracks were first     *)
(* used; InsertLayeredClip asks find_available_overlay_lane for its lane.  *)
(***************************************************************************)
MaxLaneClips == 3
MaxLaneTick == 1
MaxLaneDuration == 2

LaneClipIds == 1..MaxLaneClips
LaneAssets == {1}
LaneTrackIds == {1, 2, 3}
LaneBases == {0, 1, 2}
LaneTicks == 0..MaxLaneTick
LaneDurations == 1..MaxLaneDuration

LaneFrame == UNCHANGED <<jobVars, daemonVars, procVars, extVars, tpc, persisted, batches>>

InitLanes == JobsInit0 /\ DaemonInit0 /\ ProcInit0 /\ TimelineInit0 /\ ExtInit0

LaneClipId(t) == Min(LaneClipIds \ AllClipIds(t))

\* The id of the track a clip is on.
LaneOfClip(t, clip_id) == t[TrackOfClip(t, clip_id)].id

L_InsertClip(a, p, tr, d) ==
    /\ Cardinality(AllClipIds(tl)) < MaxLaneClips
    /\ \E r \in {InsertClip(tl, a, p, tr, d, LaneClipId(tl))} :
          /\ tl' = r.tl
          /\ lastOp' = [kind |-> "InsertClip", ok |-> r.ok, pre |-> Magnetic(tl)]
    /\ nops' = nops + 1
    /\ LaneFrame

\* lastOp keeps the arguments, the track list the call found and the lane
\* the new clip was put on.
L_InsertLayeredClip(a, p, d, base) ==
    /\ Cardinality(AllClipIds(tl)) < MaxLaneClips
    /\ \E r \in {InsertLayeredClip(tl, a, p, d, base, LaneClipId(tl))} :
          /\ tl' = r.tl
          /\ lastOp' = [kind |-> "InsertLayeredClip", ok |-> r.ok, pre |-> Magnetic(tl),
                        base_track_id |-> base, position_ticks |-> p,
                        duration_ticks |-> d, before |-> tl,
                        lane |-> LaneOfClip(r.tl, LaneClipId(tl))]
    /\ nops' = nops + 1
    /\ LaneFrame

NextLanes ==
    \/ \E a \in LaneAssets, p \in LaneTicks, tr \in LaneTrackIds, d \in LaneDurations :
          L_InsertClip(a, p, tr, d)
    \/ \E a \in LaneAssets, p \in LaneTicks, d \in LaneDurations, base \in LaneBases :
          L_InsertLayeredClip(a, p, d, base)

SpecLanes == InitLanes /\ [][NextLanes]_vars

\* The ids of the tracks above base that have no clip overlapping
\* [pos, pos + duration).
FreeLanes(t, base, pos, duration) ==
    {t[n].id : n \in {m \in DOMAIN t :
        /\ t[m].id > base
        /\ \A k \in DOMAIN t[m].clips :
              \/ ClipEnd(t[m].clips[k]) <= pos
              \/ t[m].clips[k].timeline_start_ticks >= pos + duration}}

\* C30: the lane find_available_overlay_lane(base, pos, duration) gives an
\* InsertLayeredClip is the smallest id above base of a track with no clip
\* overlapping [pos, pos + duration), in whatever order the tracks are
\* listed; when there is no such track it is the highest track id, or base
\* when no track is above it, plus one.
C30_SmallestFreeLane ==
    lastOp.kind = "InsertLayeredClip" =>
        lastOp.lane =
            IF FreeLanes(lastOp.before, lastOp.base_track_id, lastOp.position_ticks,
                         lastOp.duration_ticks) # {}
            THEN Min(FreeLanes(lastOp.before, lastOp.base_track_id, lastOp.position_ticks,
                               lastOp.duration_ticks))
            ELSE Max({lastOp.before[n].id : n \in DOMAIN lastOp.before}
                     \cup {lastOp.base_track_id}) + 1

\* Two clips of a track overlap in timeline time.
ClipsOverlap(c, d) ==
    /\ c.timeline_start_ticks < ClipEnd(d)
    /\ d.timeline_start_ticks < ClipEnd(c)

\* No overlay lane of the timeline has two overlapping clips.
NoOverlayOverlap(t) ==
    \A n \in DOMAIN t :
        t[n].id # 1 =>
            \A j, k \in DOMAIN t[n].clips :
                j # k => ~ClipsOverlap(t[n].clips[j], t[n].clips[k])

\* C31: an InsertLayeredClip with a positive duration on a timeline whose
\* overlay lanes have no two overlapping clips leaves a timeline whose
\* overlay lanes have no two overlapping clips; so does any sequence of them.
C31_LayeredInsertKeepsLanesDisjoint ==
    (lastOp.kind = "InsertLayeredClip" /\ NoOverlayOverlap(lastOp.before))
    => NoOverlayOverlap(tl)

\* An InsertLayeredClip reused an overlay lane that already had a clip, on a
\* timeline with a second lane that was taken at the position.
C31_Witness ==
    /\ lastOp.kind = "InsertLayeredClip"
    /\ NoOverlayOverlap(lastOp.before)
    /\ lastOp.lane > 1
    /\ Len(lastOp.before) >= 2
    /\ \E n \in DOMAIN tl : tl[n].id = lastOp.lane /\ Len(tl[n].clips) >= 2
    /\ FreeLanes(lastOp.before, lastOp.base_track_id, lastOp.position_ticks,
                 lastOp.duration_ticks)
       # {lastOp.before[n].id : n \in {m \in DOMAIN lastOp.before :
                                          lastOp.before[m].id > lastOp.base_track_id}}

(***************************************************************************)
(* jobs/embeddings.rs: process_embed_segments.  For every segment of the   *)
(* asset the job asks the embedding service for a text and for a vision    *)
(* embedding unless the store has one, stores what a success answer        *)
(* carries, computes the fusion embedding when both are there, and writes  *)
(* a progress update; after the loop it stamps embeddings_ready_at and     *)
(* marks the job Completed.  A request that cannot be sent ends the call   *)
(* with an error.                                                          *)
(***************************************************************************)
MaxEmbedSegments == 3

\* What the embedding service does with a request: a success status with an
\* embedding array, a success status without one, a non-success status, or
\* no answer at all (send() is an Err).
Answers == {"success", "no_embedding", "status", "error"}

\* Lines 139-190 and 205-260: the store's embeddings of one type after the
\* request for a segment, given what the service answered.
StoredAfter(have, segment_id, answer) ==
    IF segment_id \in have THEN have
    ELSE IF answer = "success" THEN have \cup {segment_id}
    ELSE have

\* Whether the request for a segment ends the call with an error.
RequestFails(have, segment_id, answer) ==
    segment_id \notin have /\ answer = "error"

\* Lines 264-340: the fusion embedding is stored when the store has none
\* and has both the text and the vision embedding.
FusionAfter(fus, text, vision, segment_id) ==
    IF segment_id \notin fus /\ segment_id \in text /\ segment_id \in vision
    THEN fus \cup {segment_id}
    ELSE fus

\* Progress as a percentage.
EmbedProgress(processed_count, total) == (processed_count * 100) \div total

EmbedFrame ==
    UNCHANGED <<inflight, conn, imports, ensureLog, dirty, pollLog, procVars, timelineVars,
                media, segments, build, lastBuild, goals, proposals, applies, messages,
                reqs, nreq, lastResp, decision, tl_index, tl_videos, lastRetrieval,
                storeVars, missing, indexPoll, diversity>>

\* One asset whose segments are built, some of them with a text embedding
\* from an earlier run, and its EmbedSegments job, dispatched.
InitEmbed ==
    /\ inflight = {} /\ conn = "free" /\ imports = << >> /\ ensureLog = << >>
    /\ dirty = FALSE /\ pollLog = NoPoll
    /\ ProcInit0 /\ TimelineInit0
    /\ media = << >> /\ build = NoBuild /\ lastBuild = NoLastBuild
    /\ goals = << >> /\ proposals = << >> /\ applies = << >> /\ messages = << >>
    /\ reqs = << >> /\ nreq = 0 /\ lastResp = NoResp /\ decision = NoDecision
    /\ tl_index = {} /\ tl_videos = << >> /\ lastRetrieval = NoRetrieval
    /\ StoreInit0
    /\ missing = NoMissing /\ indexPoll = NoIndexPoll /\ diversity = NoDiversity
    /\ embedRun = NoEmbedRun
    /\ assets = <<[project |-> 1, path |-> "a.mp4", is_reference |-> FALSE,
                   stamps |-> {"segments_built_at"}]>>
    /\ \E n \in 1..MaxEmbedSegments :
          /\ segments = [i \in 1..n |-> create_segment(<< >>, 1, 1, i - 1, i)[1]]
          /\ embeds \in SUBSET (1..n)
    /\ fusion = {}
    /\ jobs = update_job_status(
                  create_job(<< >>, "EmbedSegments", Payload(1, NoAsset, FALSE, NoProject),
                             DedupeKey("EmbedSegments", 1)).jobs,
                  1, "Running", NoProgress)

\* Lines 104-114: the asset's path and its segments are read.
EM_Start(job_id, asset_id) ==
    /\ embedRun.pc = "none"
    /\ job_id \in DOMAIN jobs /\ asset_id \in DOMAIN assets
    /\ embedRun' = [pc |-> "loop", job_id |-> job_id, asset_id |-> asset_id,
                    todo |-> get_segments_by_asset(segments, asset_id),
                    total |-> Cardinality(get_segments_by_asset(segments, asset_id)),
                    processed_count |-> 0, vision |-> {}, refused |-> FALSE]
    /\ UNCHANGED <<jobs, assets, embeds, fusion>>
    /\ EmbedFrame

\* Lines 116-351: one turn of the loop, for the next segment.
EM_Segment(text_answer, vision_answer) ==
    /\ embedRun.pc = "loop" /\ embedRun.todo # {}
    /\ \E id \in {Min(embedRun.todo)} :
          IF RequestFails(embeds, id, text_answer)
          THEN /\ embedRun' = [embedRun EXCEPT !.pc = "failed"]
               /\ jobs' = update_job_status(jobs, embedRun.job_id, "Failed", NoProgress)
               /\ UNCHANGED <<embeds, fusion>>
          ELSE IF RequestFails(embedRun.vision, id, vision_answer)
          THEN /\ embeds' = StoredAfter(embeds, id, text_answer)
               /\ embedRun' = [embedRun EXCEPT !.pc = "failed"]
               /\ jobs' = update_job_status(jobs, embedRun.job_id, "Failed", NoProgress)
               /\ UNCHANGED fusion
          ELSE /\ embeds' = StoredAfter(embeds, id, text_answer)
               /\ fusion' = FusionAfter(fusion, StoredAfter(embeds, id, text_answer),
                                        StoredAfter(embedRun.vision, id, vision_answer), id)
               /\ embedRun' =
                     [embedRun EXCEPT
                         !.todo = @ \ {id},
                         !.processed_count = @ + 1,
                         !.vision = StoredAfter(@, id, vision_answer),
                         !.refused = @ \/ (id \notin embeds /\ text_answer = "status")]
               /\ jobs' = update_job_status(jobs, embedRun.job_id, "Running",
                              EmbedProgress(embedRun.processed_count + 1, embedRun.total))
    /\ UNCHANGED assets
    /\ EmbedFrame

\* Lines 353-377: the stamp and the Completed status.
EM_Finish ==
    /\ embedRun.pc = "loop" /\ embedRun.todo = {}
    /\ assets' = update_asset_analysis_state(assets, embedRun.asset_id, "embeddings_ready_at")
    /\ jobs' = update_job_status(jobs, embedRun.job_id, "Completed", 100)
    /\ embedRun' = [embedRun EXCEPT !.pc = "done"]
    /\ UNCHANGED <<embeds, fusion>>
    /\ EmbedFrame

NextEmbed ==
    \/ EM_Start(1, 1)
    \/ \E text_answer \in Answers, vision_answer \in Answers :
          EM_Segment(text_answer, vision_answer)
    \/ EM_Finish

SpecEmbed == InitEmbed /\ [][NextEmbed]_vars

\* C32: an asset with embeddings_ready_at set has a stored text embedding
\* for each of its segments, whatever the embedding service answered during
\* the EmbedSegments run.
C32_StampMeansAllEmbedded ==
    \A a \in DOMAIN assets :
        "embeddings_ready_at" \in assets[a].stamps
        => get_segments_by_asset(segments, a) \subseteq embeds

(***************************************************************************)
(* DeleteClip as a change of the timeline (SpecEngine).                    *)
(***************************************************************************)
\* A track's clips with the clip at index ci taken out and every clip behind
\* it moved left by duration, order and in/out bounds kept.
Rippled(clips, ci, duration) ==
    [i \in 1..(Len(clips) - 1) |->
        IF i < ci THEN clips[i]
        ELSE [clips[i + 1] EXCEPT !.timeline_start_ticks = @ - duration]]

\* The timeline with the clips of the track at index k replaced.
WithClips(t, k, clips) == [t EXCEPT ![k].clips = clips]

\* A DeleteClip call that found its clip has just returned.
DeleteClipStep ==
    /\ nops' = nops + 1
    /\ lastOp'.kind = "DeleteClip" /\ lastOp'.ok

\* C33: DeleteClip of a primary clip takes exactly that clip out, moves each
\* later primary clip left by the deleted clip's duration, keeps the order
\* and the in/out bounds of the remaining primary clips and leaves the other
\* tracks as they were; DeleteClip of an overlay clip takes only that clip
\* out and moves nothing.
C33_DeleteClipRipplesPrimaryOnly ==
    [][DeleteClipStep =>
          \E k \in {TrackOfClip(tl, lastOp'.clip_id)} :
              \E ci \in {ClipIndex(tl[k].clips, lastOp'.clip_id)} :
                  tl' = WithClips(tl, k,
                            IF tl[k].id = 1
                            THEN Rippled(tl[k].clips, ci, Duration(tl[k].clips[ci]))
                            ELSE RemoveAt(tl[k].clips, ci))]_vars

(***************************************************************************)
(* SpecEdit: the insert operations of the primary storyline, applied one   *)
(* after the other to a timeline that InsertClip may have given overlay    *)
(* tracks before it has a primary track.  lastOp keeps the arguments of    *)
(* the call, the id of the clip it created and the timeline it found.      *)
(***************************************************************************)
MaxEditOps == 2
MaxEditTick == 2
MaxEditDuration == 3

EditClipIds == 1..MaxEditOps
EditAssets == {1}
EditTicks == 0..MaxEditTick
EditDurations == 1..MaxEditDuration
EditTrackIds == {1, 2}

EditFrame == UNCHANGED <<jobVars, daemonVars, procVars, extVars, tpc, persisted, batches>>

InitEdit == JobsInit0 /\ DaemonInit0 /\ ProcInit0 /\ TimelineInit0 /\ ExtInit0

EditClipId(t) == Min(EditClipIds \ AllClipIds(t))

Edited(kind, r, position_ticks, duration_ticks) ==
    /\ nops < MaxEditOps
    /\ tl' = r.tl
    /\ nops' = nops + 1
    /\ lastOp' = [kind |-> kind, ok |-> r.ok, pre |-> Magnetic(tl), before |-> tl,
                  clip_id |-> EditClipId(tl), position_ticks |-> position_ticks,
                  duration_ticks |-> duration_ticks]
    /\ EditFrame

ED_InsertClip(a, p, tr, d) ==
    Edited("InsertClip", InsertClip(tl, a, p, tr, d, EditClipId(tl)), p, d)

ED_OverwriteClip(a, p, d) ==
    Edited("OverwriteClip", OverwriteClip(tl, a, p, d, EditClipId(tl)), p, d)

ED_RippleInsertClip(a, p, d) ==
    Edited("RippleInsertClip", RippleInsertClip(tl, a, p, d, EditClipId(tl)), p, d)

\* The positions a ReorderClip is asked for: before 0 and behind the end too.
ReorderPositions == (0 - 1)..(MaxEditTick + MaxEditDuration)

\* ReorderClip closes the sequence; lastOp keeps what MoveClip with the same
\* arguments returns on the same timeline.
ED_ReorderClip(c, p) ==
    /\ nops <= MaxEditOps
    /\ tl # EmptyTimeline
    /\ \E r \in {ReorderClip(tl, c, p)} :
          /\ tl' = r.tl
          /\ lastOp' = [kind |-> "ReorderClip", ok |-> r.ok, pre |-> Magnetic(tl),
                        before |-> tl, clip_id |-> c, position_ticks |-> p,
                        duration_ticks |-> 0, move |-> MoveClip(tl, c, p)]
    /\ nops' = MaxEditOps + 1
    /\ EditFrame

NextEdit ==
    \/ \E a \in EditAssets, p \in EditTicks, tr \in EditTrackIds, d \in EditDurations :
          ED_InsertClip(a, p, tr, d)
    \/ \E a \in EditAssets, p \in EditTicks, d \in EditDurations : ED_OverwriteClip(a, p, d)
    \/ \E a \in EditAssets, p \in EditTicks, d \in EditDurations : ED_RippleInsertClip(a, p, d)
    \/ \E c \in EditClipIds, p \in ReorderPositions : ED_ReorderClip(c, p)

SpecEdit == InitEdit /\ [][NextEdit]_vars

\* The clip with an id on a track, as a set of at most one clip.
ClipsWithId(clips, id) == {clips[k] : k \in {j \in DOMAIN clips : clips[j].id = id}}

\* What OverwriteClip at [pos, end) has to leave of a clip that was on the
\* primary track: nothing of a clip the range covers, a clip that ends at
\* pos of one that contains the range or reaches into it from the left, a
\* clip that starts at end of one the range reaches into from the left, and
\* a clip outside the range as it was.
OverwriteLeaves(c, after, pos, end) ==
    IF ~(pos < ClipEnd(c) /\ c.timeline_start_ticks < end)
    THEN ClipsWithId(after, c.id) = {c}
    ELSE IF pos <= c.timeline_start_ticks /\ ClipEnd(c) <= end
    THEN ClipsWithId(after, c.id) = {}
    ELSE IF c.timeline_start_ticks < pos
    THEN \E d \in ClipsWithId(after, c.id) :
            /\ ClipsWithId(after, c.id) = {d}
            /\ d.timeline_start_ticks = c.timeline_start_ticks
            /\ d.in_ticks = c.in_ticks
            /\ ClipEnd(d) = pos
    ELSE \E d \in ClipsWithId(after, c.id) :
            /\ ClipsWithId(after, c.id) = {d}
            /\ d.timeline_start_ticks = end
            /\ d.out_ticks = c.out_ticks
            /\ ClipEnd(d) = ClipEnd(c)

OtherTracks(t) == SelectSeq(t, LAMBDA tr : tr.id # 1)

\* C35: RippleInsertClip and OverwriteClip change the primary track (id 1)
\* only, also on a timeline that has overlay or audio tracks and no track 1
\* yet: every track with another id is after the call as it was before.
C35_PrimaryInsertsTouchOnlyPrimary ==
    lastOp.kind \in {"RippleInsertClip", "OverwriteClip"}
    => OtherTracks(tl) = OtherTracks(lastOp.before)

\* C36: ReorderClip of a clip on the primary track leaves the timeline that
\* MoveClip of the clip to the same position leaves, whatever the position;
\* ReorderClip of a clip that is not on the primary track is an error and
\* leaves the timeline as it was.
C36_ReorderIsPrimaryMove ==
    lastOp.kind = "ReorderClip" =>
        IF ClipIndex(PrimaryClips(lastOp.before), lastOp.clip_id) # 0
        THEN lastOp.ok /\ lastOp.move.ok /\ tl = lastOp.move.tl
        ELSE ~lastOp.ok /\ tl = lastOp.before

\* A ReorderClip moved the first of two primary clips behind the other one.
C36_Witness ==
    /\ lastOp.kind = "ReorderClip" /\ lastOp.ok
    /\ Len(PrimaryClips(lastOp.before)) = 2
    /\ PrimaryClips(lastOp.before)[1].id = lastOp.clip_id
    /\ PrimaryClips(tl)[2].id = lastOp.clip_id
    /\ tl # lastOp.before

(***************************************************************************)
(* SpecMissing: compute_missing_steps as ensure_ready calls it, for an     *)
(* asset with any set of stamps, indexed externally or not, and each goal. *)
(***************************************************************************)
MissingFrame ==
    UNCHANGED <<jobs, inflight, assets, conn, imports, ensureLog, dirty, pollLog, procVars,
                timelineVars, segmentVars, orchVars, retrievalVars, storeVars,
                embedRun, indexPoll, diversity>>

InitMissing ==
    /\ jobs = << >> /\ inflight = {} /\ conn = "free" /\ imports = << >>
    /\ ensureLog = << >> /\ dirty = FALSE /\ pollLog = NoPoll
    /\ ProcInit0 /\ TimelineInit0 /\ SegmentInit0 /\ OrchInit0 /\ StoreInit0 /\ RunInit0
    /\ tl_index = {} /\ fusion = {} /\ lastRetrieval = NoRetrieval
    /\ \E stamps \in SUBSET Stamps :
          assets = <<[project |-> 1, path |-> "a.mp4", is_reference |-> FALSE,
                      stamps |-> stamps]>>
    /\ tl_videos \in {<< >>, 1 :> VideoId(1)}

\* ReadinessGoal::to_readiness, ensure.rs:18-27
to_readiness(goal) == goal

\* ensure_ready, ensure.rs:113-123: the steps for one asset state.
MS_Compute(asset_id, goal) ==
    /\ \E current \in {get_asset_readiness(assets, DOMAIN tl_videos, asset_id)} :
          missing' = [called |-> TRUE, current |-> current, target |-> to_readiness(goal),
                      steps |-> compute_missing_steps(current, to_readiness(goal))]
    /\ MissingFrame

NextMissing == \E goal \in ReadinessGoal : MS_Compute(1, goal)

SpecMissing == InitMissing /\ [][NextMissing]_vars

\* The job types of the stage that takes an asset to a level of readiness.
StageJobs(level) ==
    CASE level = 1 -> <<"BuildSegments">>
      [] level = 2 -> <<"TranscribeAsset", "AnalyzeVisionAsset">>
      [] level = 3 -> <<"ComputeSegmentMetadata">>
      [] level = 4 -> <<"EmbedSegments">>
      [] level = 5 -> <<"IndexAssetWithTwelveLabs">>

\* The job types of the stages above level from and at or below level to,
\* in pipeline order.
RECURSIVE StagesBetween(_, _)
StagesBetween(from, to) ==
    IF from >= to THEN << >>
    ELSE StagesBetween(from, to - 1) \o StageJobs(to)

\* C37: compute_missing_steps returns, in pipeline order and each once, the
\* job types of the stages above the current readiness and at or below the
\* goal, and the empty list when the current readiness is at or beyond it.
C37_MissingStepsAreTheStagesBetween ==
    missing.called =>
        /\ missing.steps = StagesBetween(Level(missing.current), Level(missing.target))
        /\ \A j, k \in DOMAIN missing.steps : j # k => missing.steps[j] # missing.steps[k]
        /\ Level(missing.current) >= Level(missing.target) => missing.steps = << >>

\* The steps from Segmented to Embedded were computed: four jobs.
C37_Witness ==
    /\ missing.called
    /\ missing.current = "Segmented" /\ missing.target = "Embedded"
    /\ Len(missing.steps) = 4

(***************************************************************************)
(* The segments a BuildSegments run creates (SpecSegments).                *)
(***************************************************************************)
NoTicks == -1           \* src_in_ticks / src_out_ticks IS NULL

\* Database::get_coalesced_src_in, get_coalesced_src_out
get_coalesced_src_in(segment) ==
    IF segment.src_in_ticks # NoTicks THEN segment.src_in_ticks ELSE segment.start_ticks
get_coalesced_src_out(segment) ==
    IF segment.src_out_ticks # NoTicks THEN segment.src_out_ticks ELSE segment.end_ticks

\* The rows the last finished run inserted.
CreatedRows == lastBuild.after \ lastBuild.before

\* The row the run inserted right after a row.
NextCreated(r) ==
    {n \in CreatedRows :
        n.id > r.id /\ \A m \in CreatedRows : m.id > r.id => n.id <= m.id}

\* C38: the segments a BuildSegments run creates for an asset of duration
\* D > 0 tile [0, D): the first starts at 0, each next one starts where the
\* one before ends, the last ends at D, each but the last is
\* segment_duration_ticks (5 seconds) long, and each has
\* coalesced_out > coalesced_in >= 0.
C38_SegmentsTileTheAsset ==
    (lastBuild.job # 0 /\ lastBuild.duration_ticks > 0) =>
        /\ CreatedRows # {}
        /\ \A r \in CreatedRows :
              /\ get_coalesced_src_out(r.row) > get_coalesced_src_in(r.row)
              /\ get_coalesced_src_in(r.row) >= 0
              /\ (\A m \in CreatedRows : r.id <= m.id) => get_coalesced_src_in(r.row) = 0
              /\ \A n \in NextCreated(r) :
                    /\ get_coalesced_src_in(n.row) = get_coalesced_src_out(r.row)
                    /\ get_coalesced_src_out(r.row) - get_coalesced_src_in(r.row)
                          = segment_duration_ticks
              /\ NextCreated(r) = {} => get_coalesced_src_out(r.row) = lastBuild.duration_ticks

\* A run on an asset of 5 model ticks created three segments, the last one
\* shorter than the others.
C38_Witness ==
    /\ lastBuild.job # 0
    /\ lastBuild.duration_ticks = 2 * segment_duration_ticks + 1
    /\ Cardinality(CreatedRows) = 3

(***************************************************************************)
(* SpecIndex: process_index_asset_with_twelvelabs on one asset.  The       *)
(* project may have its index already, the asset may be indexed already    *)
(* or carry the task id of an interrupted run, and the service answers     *)
(* each status check in any way.  indexPoll holds the function's locals    *)
(* and the asset's twelvelabs_task_id and twelvelabs_last_error columns.   *)
(***************************************************************************)
max_backoff == 60
max_attempts == 120

\* What get_task_status can give: a status with or without a video id, an
\* unknown status, or an error.
TaskResponses ==
    {"ready", "ready_no_video_id", "failed", "pending", "processing", "other", "error"}

IndexFrame ==
    UNCHANGED <<inflight, conn, imports, ensureLog, dirty, pollLog, procVars, timelineVars,
                assets, media, segments, embeds, build, lastBuild, goals, proposals, applies,
                messages, reqs, nreq, lastResp, decision, fusion, lastRetrieval,
                storeVars, embedRun, missing, diversity>>

InitIndex ==
    /\ inflight = {} /\ conn = "free" /\ imports = << >> /\ ensureLog = << >>
    /\ dirty = FALSE /\ pollLog = NoPoll
    /\ ProcInit0 /\ TimelineInit0
    /\ media = << >> /\ build = NoBuild /\ lastBuild = NoLastBuild
    /\ goals = << >> /\ proposals = << >> /\ applies = << >> /\ messages = << >>
    /\ reqs = << >> /\ nreq = 0 /\ lastResp = NoResp /\ decision = NoDecision
    /\ lastRetrieval = NoRetrieval /\ fusion = {}
    /\ StoreInit0
    /\ missing = NoMissing /\ diversity = NoDiversity /\ embedRun = NoEmbedRun
    /\ assets = <<[project |-> 1, path |-> "a.mp4", is_reference |-> FALSE,
                   stamps |-> {"segments_built_at", "embeddings_ready_at"}]>>
    /\ segments = << >> /\ embeds = {}
    /\ tl_index \in {{}, {1}}
    /\ tl_videos \in {<< >>, 1 :> VideoId(1)}
    /\ \E task \in BOOLEAN :
          indexPoll = [pc |-> "none", twelvelabs_task_id |-> task,
                       twelvelabs_last_error |-> FALSE]
    /\ jobs = update_job_status(
                  create_job(<< >>, "IndexAssetWithTwelveLabs",
                             Payload(1, NoAsset, FALSE, 1),
                             DedupeKey("IndexAssetWithTwelveLabs", 1)).jobs,
                  1, "Running", NoProgress)

\* Lines 24-120: the project's index is read or created, an indexed asset
\* completes the job at once, the task of an interrupted run is resumed or
\* an upload task is created, and the loop's counters are set.
IX_Start(job_id, asset_id, project_id, create_index_ok, create_task_ok) ==
    /\ indexPoll.pc = "none"
    /\ job_id \in DOMAIN jobs /\ jobs[job_id].type = "IndexAssetWithTwelveLabs"
    /\ asset_id \in DOMAIN assets /\ project_id = assets[asset_id].project
    /\ IF project_id \notin tl_index /\ ~create_index_ok
       THEN /\ indexPoll' = [indexPoll EXCEPT !.pc = "returned"] @@
                            [job_id |-> job_id, asset_id |-> asset_id, result |-> "Err",
                             attempts |-> 0, checks |-> 0, slept |-> << >>]
            /\ UNCHANGED <<jobs, tl_index, tl_videos>>
       ELSE /\ tl_index' = tl_index \cup {project_id}
            /\ UNCHANGED tl_videos
            /\ IF asset_id \in DOMAIN tl_videos
               THEN /\ jobs' = update_job_status(jobs, job_id, "Completed", 100)
                    /\ indexPoll' = [indexPoll EXCEPT !.pc = "returned"] @@
                                    [job_id |-> job_id, asset_id |-> asset_id,
                                     result |-> "Ok",
                                     attempts |-> 0, checks |-> 0, slept |-> << >>]
               ELSE IF ~indexPoll.twelvelabs_task_id /\ ~create_task_ok
               THEN /\ indexPoll' = [indexPoll EXCEPT !.pc = "returned"] @@
                                    [job_id |-> job_id, asset_id |-> asset_id,
                                     result |-> "Err",
                                     attempts |-> 0, checks |-> 0, slept |-> << >>]
                    /\ UNCHANGED jobs
               ELSE /\ indexPoll' = [indexPoll EXCEPT !.pc = "loop",
                                                      !.twelvelabs_task_id = TRUE] @@
                                    [job_id |-> job_id, asset_id |-> asset_id,
                                     result |-> "none", backoff_seconds |-> 5,
                                     attempts |-> 0, checks |-> 0, slept |-> << >>]
                    /\ UNCHANGED jobs
    /\ IndexFrame

\* sleep(backoff_seconds), then backoff_seconds = (backoff_seconds * 2).min(max_backoff)
SleepAndBackOff(ip) ==
    [ip EXCEPT !.slept = Append(@, ip.backoff_seconds),
               !.backoff_seconds = Min({ip.backoff_seconds * 2, max_backoff})]

\* Progress as a percentage: 0.1 + (attempts / max_attempts) * 0.8.
IndexProgress(attempts) == 10 + (attempts * 80) \div max_attempts

\* One iteration of the loop (lines 122-194) with the service's answer to
\* its status check.
IX_Check(response) ==
    /\ indexPoll.pc = "loop"
    /\ LET attempts == indexPoll.attempts + 1
           ip       == [indexPoll EXCEPT !.attempts = attempts]
           running  == update_job_status(jobs, indexPoll.job_id, "Running",
                                         IndexProgress(attempts))
           checked  == [ip EXCEPT !.checks = @ + 1]
       IN IF attempts > max_attempts
          THEN /\ indexPoll' = [ip EXCEPT !.pc = "returned", !.result = "Err"]
               /\ UNCHANGED <<jobs, tl_videos>>
          ELSE CASE response = "ready" ->
                      /\ tl_videos' = tl_videos @@
                                      (indexPoll.asset_id :> VideoId(indexPoll.asset_id))
                      /\ jobs' = update_job_status(running, indexPoll.job_id,
                                                   "Completed", 100)
                      /\ indexPoll' = [checked EXCEPT !.pc = "returned", !.result = "Ok",
                                                      !.twelvelabs_task_id = FALSE,
                                                      !.twelvelabs_last_error = FALSE]
                 [] response = "ready_no_video_id" ->
                      /\ jobs' = running
                      /\ indexPoll' = [checked EXCEPT !.pc = "returned", !.result = "Err"]
                      /\ UNCHANGED tl_videos
                 [] response = "failed" ->
                      /\ jobs' = update_job_status(running, indexPoll.job_id,
                                                   "Failed", NoProgress)
                      /\ indexPoll' = [checked EXCEPT !.pc = "returned", !.result = "Err",
                                                      !.twelvelabs_last_error = TRUE]
                      /\ UNCHANGED tl_videos
                 [] OTHER ->
                      /\ jobs' = running
                      /\ indexPoll' = SleepAndBackOff(checked)
                      /\ UNCHANGED tl_videos
    /\ UNCHANGED tl_index
    /\ IndexFrame

NextIndex ==
    \/ \E create_index_ok \in BOOLEAN, create_task_ok \in BOOLEAN :
          IX_Start(1, 1, 1, create_index_ok, create_task_ok)
    \/ \E response \in TaskResponses : IX_Check(response)

SpecIndex == InitIndex /\ [][NextIndex]_vars

\* The delays slept so far start at 5 s, each next one is twice the one
\* before up to the cap, and none exceeds the cap.
BackoffSchedule(slept) ==
    /\ Len(slept) > 0 => slept[1] = 5
    /\ \A i \in DOMAIN slept :
          /\ slept[i] <= 60
          /\ i > 1 => slept[i] = Min({2 * slept[i - 1], 60})

\* C39: whatever the service answers, the polling loop makes at most
\* max_attempts status checks, the job is Completed or Failed once the loop
\* has ended, and the delays between checks are 5 s, doubling, capped at 60 s.
C39_PollingEndsCompletedOrFailed ==
    indexPoll.pc \in {"loop", "returned"} =>
        /\ indexPoll.checks <= max_attempts
        /\ BackoffSchedule(indexPoll.slept)
        /\ (indexPoll.pc = "returned" /\ indexPoll.attempts > 0)
              => jobs[indexPoll.job_id].status \in {"Completed", "Failed"}

\* The parts of C39 about the number of checks and the delays alone.
PollingIsBoundedAndBacksOff ==
    indexPoll.pc \in {"loop", "returned"} =>
        /\ indexPoll.checks <= max_attempts
        /\ BackoffSchedule(indexPoll.slept)

\* The loop gave up at the attempt cap.
PollingTimedOut ==
    /\ indexPoll.pc = "returned"
    /\ indexPoll.attempts > max_attempts
    /\ indexPoll.checks = max_attempts
    /\ jobs[indexPoll.job_id].status = "Running"

(***************************************************************************)
(* SpecDiversity: diversify_candidates on a list of candidates.  A text    *)
(* is a sequence of characters; the segments table holds two segments of   *)
(* asset 1 and one of asset 2, and a candidate may name a segment that is  *)
(* not in the table.                                                       *)
(***************************************************************************)
MaxCandidates == 3

\* str::to_lowercase
to_lowercase(s) == [i \in DOMAIN s |-> IF s[i] = "A" THEN "a" ELSE s[i]]

\* Option<String>
NoSummary == [some |-> FALSE, text |-> << >>]
Some(text) == [some |-> TRUE, text |-> text]

\* Lines 44-46: the key a candidate's summary is remembered under.
summary_key(candidate) ==
    IF candidate.summary_text.some
    THEN trim(to_lowercase(candidate.summary_text.text))
    ELSE << >>

\* Lines 21-28 for one asset: its candidates, in the order of the list.
ByAsset(candidates, segs, asset_id) ==
    SelectSeq(candidates,
              LAMBDA c : c.segment_id \in DOMAIN segs
                         /\ segs[c.segment_id].media_asset_id = asset_id)

\* Vec::sort_by on similarity_score, descending; the sort is stable.
RECURSIVE SortByScore(_)
SortByScore(cs) ==
    IF cs = << >> THEN << >>
    ELSE LET best == CHOOSE i \in DOMAIN cs :
                        /\ \A j \in DOMAIN cs : cs[j].similarity_score <= cs[i].similarity_score
                        /\ \A j \in 1..(i - 1) : cs[j].similarity_score < cs[i].similarity_score
         IN <<cs[best]>> \o SortByScore(SubSeq(cs, 1, best - 1) \o SubSeq(cs, best + 1, Len(cs)))

\* Lines 42-55: a candidate is kept when its key is empty or new.
RECURSIVE Deduplicate(_, _)
Deduplicate(asset_candidates, seen_summaries) ==
    IF asset_candidates = << >> THEN << >>
    ELSE LET candidate == Head(asset_candidates)
             key       == summary_key(candidate)
         IN IF key # << >> /\ key \notin seen_summaries
            THEN <<candidate>> \o Deduplicate(Tail(asset_candidates), seen_summaries \cup {key})
            ELSE IF key = << >>
            THEN <<candidate>> \o Deduplicate(Tail(asset_candidates), seen_summaries)
            ELSE Deduplicate(Tail(asset_candidates), seen_summaries)

\* Lines 32-56: the assets of by_asset in the order the map yields them.
RECURSIVE DiversifyAssets(_, _, _, _)
DiversifyAssets(candidates, max_per_asset, segs, order) ==
    IF order = << >> THEN << >>
    ELSE LET sorted == SortByScore(ByAsset(candidates, segs, Head(order)))
         IN Deduplicate(SubSeq(sorted, 1, Min({Len(sorted), max_per_asset})), {})
            \o DiversifyAssets(candidates, max_per_asset, segs, Tail(order))

\* diversify_candidates; order is the order in which the HashMap yields the
\* assets.
diversify_candidates(candidates, max_per_asset, segs, order) ==
    SortByScore(DiversifyAssets(candidates, max_per_asset, segs, order))

SummaryTexts ==
    {NoSummary, Some(<<"A">>), Some(<<"a", " ">>), Some(<<"b">>), Some(<<" ">>)}
CandidateSegments == {1, 2, 3, 9}
Scores == {1, 2}
Candidates ==
    [segment_id : CandidateSegments, similarity_score : Scores, summary_text : SummaryTexts]
CandidateLists == UNION {[1..n -> Candidates] : n \in 0..MaxCandidates}

\* The assets that own a candidate's segment, in each order.
AssetOrders(candidates, segs) ==
    LET owners == {segs[candidates[i].segment_id].media_asset_id :
                      i \in {k \in DOMAIN candidates : candidates[k].segment_id \in DOMAIN segs}}
    IN {o \in UNION {[1..n -> owners] : n \in {Cardinality(owners)}} :
           \A i, j \in DOMAIN o : i # j => o[i] # o[j]}

DiversityFrame ==
    UNCHANGED <<jobs, inflight, assets, conn, imports, ensureLog, dirty, pollLog, procVars,
                timelineVars, segmentVars, orchVars, retrievalVars, storeVars,
                embedRun, missing, indexPoll>>

InitDiversity ==
    /\ jobs = << >> /\ inflight = {} /\ conn = "free" /\ imports = << >>
    /\ ensureLog = << >> /\ dirty = FALSE /\ pollLog = NoPoll
    /\ ProcInit0 /\ TimelineInit0 /\ OrchInit0 /\ RetrievalInit0 /\ StoreInit0
    /\ media = << >> /\ build = NoBuild /\ lastBuild = NoLastBuild /\ embeds = {}
    /\ embedRun = NoEmbedRun /\ missing = NoMissing /\ indexPoll = NoIndexPoll
    /\ assets = <<[project |-> 1, path |-> "a.mp4", is_reference |-> FALSE,
                   stamps |-> {"segments_built_at"}],
                  [project |-> 1, path |-> "b.mp4", is_reference |-> FALSE,
                   stamps |-> {"segments_built_at"}]>>
    /\ segments = create_segment(create_segment(create_segment(<< >>, 1, 1, 0, 1),
                                                1, 1, 1, 2), 1, 2, 0, 1)
    /\ \E candidates \in CandidateLists, max_per_asset \in 1..MaxCandidates :
          diversity = [called |-> FALSE, candidates |-> candidates,
                       max_per_asset |-> max_per_asset]

\* The call: the result is kept with the input.
DV_Diversify ==
    /\ ~diversity.called
    /\ \E order \in AssetOrders(diversity.candidates, segments) :
          diversity' = [diversity EXCEPT !.called = TRUE] @@
                       [result |-> IF diversity.candidates = << >> THEN << >>
                                   ELSE diversify_candidates(diversity.candidates,
                                                             diversity.max_per_asset,
                                                             segments, order)]
    /\ DiversityFrame

NextDiversity == DV_Diversify

SpecDiversity == InitDiversity /\ [][NextDiversity]_vars

\* The summary after case and whitespace folding.
Folded(candidate) == trim(to_lowercase(candidate.summary_text.text))

HasSummary(candidate) ==
    candidate.summary_text.some /\ candidate.summary_text.text # << >>

\* C40: the list diversify_candidates returns holds no two candidates, of
\* one asset or of two, whose non-empty summary_text is the same after case
\* and whitespace folding.
C40_NoDuplicateSummaries ==
    diversity.called =>
        \A i, j \in DOMAIN diversity.result :
            (i # j /\ HasSummary(diversity.result[i]) /\ HasSummary(diversity.result[j]))
                => Folded(diversity.result[i]) # Folded(diversity.result[j])

\* Within one asset, summaries that are non-empty after folding are distinct.
NoDuplicateSummariesPerAsset ==
    diversity.called =>
        \A i, j \in DOMAIN diversity.result :
            (/\ i # j
             /\ Folded(diversity.result[i]) # << >>
             /\ segments[diversity.result[i].segment_id].media_asset_id
                   = segments[diversity.result[j].segment_id].media_asset_id)
                => Folded(diversity.result[i]) # Folded(diversity.result[j])

\* Two segments of different assets with the same folded summary are both
\* returned.
DuplicateAcrossAssets ==
    /\ diversity.called
    /\ \E i, j \in DOMAIN diversity.result :
          /\ segments[diversity.result[i].segment_id].media_asset_id
                # segments[diversity.result[j].segment_id].media_asset_id
          /\ Folded(diversity.result[i]) # << >>
          /\ Folded(diversity.result[i]) = Folded(diversity.result[j])
====
